---- MODULE Spec2Model ----
(***************************************************************************)
(* Model of the route_coordinator pipeline of route-scouter:               *)
(*   route_coordinator/agent.py                  the agent workflow        *)
(*   sub_agents/location_scout/{agent,tools}.py  geocoding                 *)
(*   sub_agents/route_builder/{agent,tools}.py   waypoints, directions,    *)
(*                                               pace estimates, map URL   *)
(*   sub_agents/elevation_analyst/{agent,tools}.py elevation profile       *)
(*                                                                         *)
(* Representation of Python values:                                        *)
(*   str            a sequence of one-character strings                    *)
(*   Optional[x]    None is << >>, a present value x is << x >>            *)
(*   dict (result)  a record; a key is present iff it is in DOMAIN         *)
(*   float degrees  an integer number of micro-degrees (1e-6 degree)       *)
(*   float km       an integer number of metres (1e-3 km)                  *)
(*   float metres of elevation   an integer number of millimetres          *)
(* Divisions truncate toward zero at that resolution; the binary rounding  *)
(* of the last bits of a Python float is not represented.                  *)
(***************************************************************************)
EXTENDS Integers, Sequences, FiniteSets, TLC

\* ------------------------------------------------------------------ bounds
\* Tool calls one LLM agent makes during one run of the workflow.
MaxToolCalls == 2

\* ------------------------------------------------------------ Python values
None == << >>
Some(x) == << x >>
IsNone(o) == o = << >>
\* Python truthiness of an Optional[float] / Optional[str]: None, 0 and ""
\* are falsy.
TruthyNum(o) == o # << >> /\ o[1] # 0
TruthyStr(o) == o # << >> /\ o[1] # << >>
\* Python truthiness of an Optional[list]: None and [] are falsy.
TruthyList(o) == o # << >> /\ o[1] # << >>

Abs(x) == IF x < 0 THEN -x ELSE x
\* a / b for b > 0, truncated toward zero.
TDiv(a, b) == IF a >= 0 THEN a \div b ELSE -((-a) \div b)
\* a / b for b > 0 rounded to the nearest integer, ties to even (the rounding
\* of Python's round() and of the format specs .0f/.1f on exact ties).
RoundHalfEven(a, b) ==
    LET q == Abs(a) \div b
        r == Abs(a) % b
        up == (2 * r > b) \/ (2 * r = b /\ q % 2 = 1)
        m == IF up THEN q + 1 ELSE q
    IN IF a < 0 THEN -m ELSE m

\* F(v) with v evaluated once, before F is applied (call by value)
ByValue(v, F(_)) == CHOOSE y \in { F(x) : x \in { v } } : TRUE

RECURSIVE SumSeq(_)
SumSeq(s) ==
    ByValue(s, LAMBDA v : IF v = << >> THEN 0 ELSE v[1] + SumSeq(Tail(v)))

RECURSIVE Flatten(_)
Flatten(ss) ==
    ByValue(ss, LAMBDA v : IF v = << >> THEN << >> ELSE v[1] \o Flatten(Tail(v)))

\* ------------------------------------------------------------------ strings
DigitChars == << "0", "1", "2", "3", "4", "5", "6", "7", "8", "9" >>

RECURSIVE NatStr(_)
\* str(n) for an int n >= 0
NatStr(n) == IF n < 10 THEN << DigitChars[n + 1] >>
             ELSE NatStr(n \div 10) \o << DigitChars[(n % 10) + 1] >>

RECURSIVE FracDigits(_, _)
\* the k decimal digits of f (0 <= f < 10^k), most significant first
FracDigits(f, k) == IF k = 0 THEN << >>
                    ELSE FracDigits(f \div 10, k - 1) \o << DigitChars[(f % 10) + 1] >>

RECURSIVE TrimZeros(_)
\* drop trailing "0" digits, keeping at least one digit
TrimZeros(s) ==
    ByValue(s, LAMBDA v : IF Len(v) > 1 /\ v[Len(v)] = "0"
                          THEN TrimZeros(SubSeq(v, 1, Len(v) - 1)) ELSE v)

\* micro-degrees per degree
Micro == 1000 * 1000

\* str() of a float of degrees held as micro-degrees: sign, integer part,
\* ".", and the shortest fraction that reads back as the same value
\* (Python's float repr: 53.2745 -> "53.2745", 53.0 -> "53.0").
FloatStr(v) ==
    (IF v < 0 THEN << "-" >> ELSE << >>)
    \o NatStr(Abs(v) \div Micro)
    \o << "." >>
    \o TrimZeros(FracDigits(Abs(v) % Micro, 6))

\* -------------------------------------------------------------- geometry
\* 1000 * math.sin(math.radians(a)) for a multiple of 15 degrees
Sin1000(a) ==
    LET m == a % 360
        q == IF m <= 90 THEN m
             ELSE IF m <= 180 THEN 180 - m
             ELSE IF m <= 270 THEN m - 180
             ELSE 360 - m
        v == CASE q = 0 -> 0 [] q = 15 -> 259 [] q = 30 -> 500 [] q = 45 -> 707
               [] q = 60 -> 866 [] q = 75 -> 966 [] q = 90 -> 1000
    IN IF m <= 180 THEN v ELSE -v
\* 1000 * math.cos(math.radians(a)) for a multiple of 15 degrees
Cos1000(a) == Sin1000(a + 90)

\* Eyre Square, Galway (53.2745, -9.0494), in micro-degrees
Galway == [lat |-> 53274500, lng |-> -9049400]
\* 1000 * math.cos(math.radians(lat)) of a centre latitude in micro-degrees
CosLat1000(lat) ==
    IF lat = Galway.lat THEN 598 ELSE Cos1000(lat \div Micro)

\* 1000 * (2 * math.pi * manhattan_factor), manhattan_factor = 1.3
TwoPiManhattan1000 == 8168
\* 10 * (2 * manhattan_factor): the divisor of the one-way distance
TwoManhattan10 == 26
\* kilometres per degree of latitude
KmPerDegree == 111
start_angle == 45
DefaultNumPoints == 4

\* A waypoint string f"{wp_lat},{wp_lng}"
WaypointStr(wp_lat, wp_lng) == FloatStr(wp_lat) \o << "," >> \o FloatStr(wp_lng)

\* lat_offset and lng_offset (micro-degrees) of _generate_loop_waypoints;
\* distance_km is held in metres
LoopLatOffset(distance_km) ==
    TDiv(TDiv(distance_km * 1000, TwoPiManhattan1000) * 1000, KmPerDegree)
LoopLngOffset(lat, distance_km) ==
    TDiv(LoopLatOffset(distance_km) * 1000, CosLat1000(lat))

\* LoopAngle starting at 0 degrees.
LoopAngle_from_zero(i, num_points) == i * (360 \div num_points)

\* the angle in degrees of the i-th waypoint, i = 0 .. num_points-1
LoopAngle(i, num_points) == start_angle + i * (360 \div num_points)

\* LoopPoint taking the angle as a compass bearing: latitude by the cosine,
\* longitude by the sine.
LoopPoint_compass(lat, lng, distance_km, num_points, i) ==
    << lat + TDiv(LoopLatOffset(distance_km) * Cos1000(LoopAngle(i, num_points)), 1000),
       lng + TDiv(LoopLngOffset(lat, distance_km) * Sin1000(LoopAngle(i, num_points)), 1000) >>

\* the i-th point (0-based) of the loop, as << wp_lat, wp_lng >>
LoopPoint(lat, lng, distance_km, num_points, i) ==
    << lat + TDiv(LoopLatOffset(distance_km) * Sin1000(LoopAngle(i, num_points)), 1000),
       lng + TDiv(LoopLngOffset(lat, distance_km) * Cos1000(LoopAngle(i, num_points)), 1000) >>

generate_loop_waypoints(lat, lng, distance_km, num_points) ==
    [ k \in 1 .. num_points |->
        LET p == LoopPoint(lat, lng, distance_km, num_points, k - 1)
        IN WaypointStr(p[1], p[2]) ]

\* OutAndBackPoint taking the direction as an angle from the east: latitude by
\* the sine, longitude by the cosine.
OutAndBackPoint_from_east(lat, lng, distance_km, direction) ==
    LET one_way == TDiv(distance_km * 10, TwoManhattan10)
        lat_off == TDiv(one_way * 1000, KmPerDegree)
        lng_off == TDiv(lat_off * 1000, CosLat1000(lat))
    IN << lat + TDiv(lat_off * Sin1000(direction), 1000),
          lng + TDiv(lng_off * Cos1000(direction), 1000) >>

\* the single turnaround point of an out-and-back route, << wp_lat, wp_lng >>
OutAndBackPoint(lat, lng, distance_km, direction) ==
    LET one_way == TDiv(distance_km * 10, TwoManhattan10)
        lat_off == TDiv(one_way * 1000, KmPerDegree)
        lng_off == TDiv(lat_off * 1000, CosLat1000(lat))
    IN << lat + TDiv(lat_off * Cos1000(direction), 1000),
          lng + TDiv(lng_off * Sin1000(direction), 1000) >>

generate_out_and_back_waypoint(lat, lng, distance_km, direction) ==
    LET p == OutAndBackPoint(lat, lng, distance_km, direction)
    IN << WaypointStr(p[1], p[2]) >>

\* ------------------------------------------------------------- geocoding
\* An upstream reply is [kind |-> "exc", message |-> m] when requests.get or
\* response.json() raises, else [kind |-> "json", status |-> s, results |-> r].
IndexError == "list index out of range"

geocode_location(resp) ==
    IF resp.kind = "exc"
    THEN [status |-> "error", error_message |-> << resp.message >>]
    ELSE IF resp.status = "OK"
    THEN IF resp.results = << >>
         THEN [status |-> "error", error_message |-> << IndexError >>]
         ELSE [status |-> "success",
               latitude |-> resp.results[1].lat,
               longitude |-> resp.results[1].lng,
               formatted_address |-> resp.results[1].formatted_address,
               place_id |-> resp.results[1].place_id]
    ELSE [status |-> "error",
          error_message |-> << "Geocoding failed: ", resp.status >>]

\* ---------------------------------------------------------- nearby places
\* dict.get(key, 'N/A') on an optional field
NotAvailable == "N/A"
GetOr(field, default) == IF field = None THEN default ELSE field[1]

\* one element of the places list built from one upstream result
PlaceOf(place) ==
    [name |-> place.name,
     address |-> GetOr(place.vicinity, NotAvailable),
     rating |-> GetOr(place.rating, NotAvailable),
     latitude |-> place.lat,
     longitude |-> place.lng]

TopResults == 5

\* data['results'] without the slice
TopPlaces_all(results) == results

\* data['results'][:5]
TopPlaces(results) ==
    SubSeq(results, 1, IF Len(results) < TopResults THEN Len(results) ELSE TopResults)

find_nearby_places(resp) ==
    IF resp.kind = "exc"
    THEN [status |-> "error", error_message |-> << resp.message >>]
    ELSE IF resp.status = "OK"
    THEN LET top == TopPlaces(resp.results)
             places == [ i \in 1 .. Len(top) |-> PlaceOf(top[i]) ]
         IN [status |-> "success", places |-> places, count |-> Len(places)]
    ELSE [status |-> "error",
          error_message |-> << "Places API returned: ", resp.status >>]

\* find_running_start_points with the upstream replies to its geocode and
\* nearby-places requests: the result, and the results of the collaborator
\* calls it made
StartPointsRecommendation ==
    "Parks are excellent starting points with paths, water, and restrooms"
find_running_start_points(location, geo_reply, places_reply) ==
    LET geocode_result == geocode_location(geo_reply)
        parks == find_nearby_places(places_reply)
    IN IF geocode_result.status # "success"
       THEN [result |-> geocode_result, collaborators |-> << geocode_result >>]
       ELSE [result |->
                 [status |-> "success",
                  location |-> location,
                  coordinates |-> [lat |-> geocode_result.latitude,
                                   lng |-> geocode_result.longitude],
                  nearby_parks |-> IF parks.status = "success" THEN parks.places ELSE << >>,
                  recommendation |-> StartPointsRecommendation],
             collaborators |-> << geocode_result, parks >>]

\* ------------------------------------------------------------ directions
RECURSIVE JoinStr(_, _)
\* sep.join(strs)
JoinStr(strs, sep) ==
    ByValue(strs, LAMBDA v :
        IF v = << >> THEN << >>
        ELSE IF Len(v) = 1 THEN v[1]
        ELSE v[1] \o sep \o JoinStr(Tail(v), sep))

\* the query parameters get_running_directions sends (the API key left out)
DirectionsParams(origin, destination, waypoints, avoid_highways) ==
    [origin |-> origin,
     destination |-> destination,
     mode |-> "walking",
     waypoints |-> IF TruthyList(waypoints)
                   THEN Some(JoinStr(waypoints[1], << "|" >>)) ELSE None,
     avoid |-> IF avoid_highways THEN Some("highways") ELSE None,
     alternatives |-> "true"]

\* PathCoordinates adding the end of every leg after the leg's steps.
PathCoordinates_leg_ends(legs) ==
    Flatten([ i \in 1 .. Len(legs) |->
                [ j \in 1 .. Len(legs[i].steps) |-> legs[i].steps[j].start_location ]
                \o << legs[i].end_location >> ])

\* LegsTotal reading the first leg only.
LegsTotal_first(legs, key) == legs[1][key].value

\* sum(leg[key]['value'] for leg in legs), key being distance or duration
LegsTotal(legs, key) == SumSeq([ i \in 1 .. Len(legs) |-> legs[i][key].value ])

\* path_coordinates of the legs: every step's start, then the last leg's end
PathCoordinates(legs) ==
    Flatten([ i \in 1 .. Len(legs) |->
                [ j \in 1 .. Len(legs[i].steps) |-> legs[i].steps[j].start_location ] ])
    \o << legs[Len(legs)].end_location >>

\* SelectRoute taking the last alternative.
SelectRoute_last(routes) == routes[Len(routes)]

\* route = data['routes'][0]
SelectRoute(routes) == routes[1]

get_running_directions(resp) ==
    IF resp.kind = "exc"
    THEN [status |-> "error", error_message |-> << resp.message >>]
    ELSE IF resp.status = "OK"
    THEN IF resp.routes = << >> \/ SelectRoute(resp.routes).legs = << >>
         THEN [status |-> "error", error_message |-> << IndexError >>]
         ELSE LET route == SelectRoute(resp.routes)
                  legs == route.legs
              IN [status |-> "success",
                  total_distance |-> LegsTotal(legs, "distance"),
                  path_coordinates |-> PathCoordinates(legs),
                  summary |-> IF route.summary = None THEN "Route found"
                              ELSE route.summary[1],
                  total_duration |-> LegsTotal(legs, "duration"),
                  num_alternatives |-> Len(resp.routes),
                  legs |-> [ i \in 1 .. Len(legs) |->
                              [start_address |-> legs[i].start_address,
                               end_address |-> legs[i].end_address,
                               distance |-> legs[i].distance.text,
                               duration |-> legs[i].duration.text] ]]
    ELSE [status |-> "error",
          error_message |-> << "Directions API returned: ", resp.status >>]

\* directions_exchange asking the upstream once more when the first answer is
\* an error.
directions_exchange_retry(origin, destination, waypoints, replies) ==
    LET params == DirectionsParams(origin, destination, waypoints, TRUE)
        first == get_running_directions(replies[1])
    IN IF first.status = "success"
       THEN [result |-> first, requests |-> << params >>]
       ELSE [result |-> get_running_directions(replies[2]),
             requests |-> << params, params >>]

\* get_running_directions against an upstream that would answer replies[k] to
\* the k-th request: the result returned and the requests made (the single
\* requests.get of line 68)
directions_exchange(origin, destination, waypoints, replies) ==
    [result |-> get_running_directions(replies[1]),
     requests |-> << DirectionsParams(origin, destination, waypoints, TRUE) >>]

\* ----------------------------------------------------------------- map URL
\* characters urllib.parse.quote never encodes, and its default safe="/"
AlwaysSafe ==
    { "a", "b", "c", "d", "e", "f", "g", "h", "i", "j", "k", "l", "m", "n", "o",
      "p", "q", "r", "s", "t", "u", "v", "w", "x", "y", "z",
      "A", "B", "C", "D", "E", "F", "G", "H", "I", "J", "K", "L", "M", "N", "O",
      "P", "Q", "R", "S", "T", "U", "V", "W", "X", "Y", "Z",
      "0", "1", "2", "3", "4", "5", "6", "7", "8", "9", "_", ".", "-", "~" }
QuoteSafe == AlwaysSafe \cup { "/" }
\* %XX of the character's byte
PercentEncode(c) ==
    CASE c = " " -> << "%", "2", "0" >>
      [] c = "," -> << "%", "2", "C" >>
      [] c = "%" -> << "%", "2", "5" >>
      [] c = "?" -> << "%", "3", "F" >>
      [] c = "|" -> << "%", "7", "C" >>
      [] c = "@" -> << "%", "4", "0" >>
      [] c = "=" -> << "%", "3", "D" >>
      [] c = ":" -> << "%", "3", "A" >>
\* urllib.parse.quote(s)
quote(s) ==
    Flatten([ i \in 1 .. Len(s) |->
                IF s[i] \in QuoteSafe THEN << s[i] >> ELSE PercentEncode(s[i]) ])

base_url ==
    << "h", "t", "t", "p", "s", ":", "/", "/", "w", "w", "w", ".", "g", "o", "o",
       "g", "l", "e", ".", "c", "o", "m", "/", "m", "a", "p", "s", "/", "d", "i",
       "r", "/" >>
TravelModeParam ==
    << "/", "@", "?", "t", "r", "a", "v", "e", "l", "m", "o", "d", "e", "=" >>
Walking == << "w", "a", "l", "k", "i", "n", "g" >>
ClickHere ==
    << "C", "l", "i", "c", "k", " ", "h", "e", "r", "e", " ", "t", "o", " ", "v",
       "i", "e", "w", " ", "r", "o", "u", "t", "e", " ", "i", "n", " ", "G", "o",
       "o", "g", "l", "e", " ", "M", "a", "p", "s", ":", " " >>

\* MapsUrl without the test of the waypoints: the waypoint part is written
\* even when there are none.
MapsUrl_no_branch(origin, destination, waypoints, travel_mode) ==
    LET wps == IF waypoints = None THEN << >> ELSE waypoints[1]
    IN base_url \o quote(origin) \o << "/" >>
       \o JoinStr([ i \in 1 .. Len(wps) |-> quote(wps[i]) ], << "/" >>)
       \o << "/" >> \o quote(destination)
       \o TravelModeParam \o travel_mode

\* the URL text generate_google_maps_url builds
MapsUrl(origin, destination, waypoints, travel_mode) ==
    (IF TruthyList(waypoints)
     THEN base_url \o quote(origin) \o << "/" >>
          \o JoinStr([ i \in 1 .. Len(waypoints[1]) |-> quote(waypoints[1][i]) ],
                     << "/" >>)
          \o << "/" >> \o quote(destination)
     ELSE base_url \o quote(origin) \o << "/" >> \o quote(destination))
    \o TravelModeParam \o travel_mode

generate_google_maps_url(origin, destination, waypoints, travel_mode) ==
    ByValue(MapsUrl(origin, destination, waypoints, travel_mode), LAMBDA url :
        [status |-> "success", maps_url |-> url, message |-> ClickHere \o url])

\* ----------------------------------------------------- find_running_route
\* Typical running paces in tenths of a minute per km
easy_pace == 65
moderate_pace == 55
fast_pace == 45

\* f"{distance_km * pace:.0f} min ({pace:.1f} min/km)", distance_km in metres
\* and pace in tenths of min/km: the two formatted numbers and the literals
PaceStr(distance_km, pace) ==
    << RoundHalfEven(distance_km * pace, 10000), " min (", pace, " min/km)" >>

\* estimated_times scaled from the walking duration of the directions result
\* (base_minutes) in place of the distance.
EstimatedTimes_from_duration(res) ==
    [easy_pace |-> << RoundHalfEven(res.total_duration, 60), " min (", easy_pace, " min/km)" >>,
     moderate_pace |->
         << RoundHalfEven(res.total_duration * moderate_pace, 60 * easy_pace),
            " min (", moderate_pace, " min/km)" >>,
     fast_pace |->
         << RoundHalfEven(res.total_duration * fast_pace, 60 * easy_pace),
            " min (", fast_pace, " min/km)" >>]

\* result['estimated_times'] of a directions result: distance_km is
\* result['total_distance'] / 1000, here in metres
EstimatedTimes(res) ==
    [easy_pace |-> PaceStr(res.total_distance, easy_pace),
     moderate_pace |-> PaceStr(res.total_distance, moderate_pace),
     fast_pace |-> PaceStr(res.total_distance, fast_pace)]

\* The phases of one call: the code up to the geocode reply is
\* RESOLVING_WAYPOINTS, from the directions call to its reply
\* FETCHING_DIRECTIONS, the success branch COMPUTING_METRICS; DONE and FAILED are
\* the two ways the call returns.
Phases == { "idle", "RESOLVING_WAYPOINTS", "FETCHING_DIRECTIONS",
            "COMPUTING_METRICS", "DONE", "FAILED" }
Returned == { "DONE", "FAILED" }

\* The events of one call's log: a collaborator is called with its arguments,
\* a collaborator returns its result.
GeocodeCall(location_name) ==
    [ev |-> "call", fn |-> "geocode_location", location_name |-> location_name]
DirectionsCall(origin, destination, wps) ==
    [ev |-> "call", fn |-> "get_running_directions", origin |-> origin,
     destination |-> destination, waypoints |-> wps,
     params |-> DirectionsParams(origin, destination, wps, TRUE)]
MapsUrlCall(origin, destination, wps, travel_mode) ==
    [ev |-> "call", fn |-> "generate_google_maps_url", origin |-> origin,
     destination |-> destination, waypoints |-> wps, travel_mode |-> travel_mode]
ReturnEv(fn, res) == [ev |-> "return", fn |-> fn, result |-> res]

\* MissingDistance testing the distance of loops only.
MissingDistance_loop_only(req) ==
    req.is_loop /\ ~TruthyNum(req.distance_target_km)

\* is the request refused for want of a target distance (lines 126, 149)
MissingDistance(req) ==
    IF req.is_loop THEN ~TruthyNum(req.distance_target_km)
    ELSE ~TruthyStr(req.end_location) /\ ~TruthyNum(req.distance_target_km)

\* NeedsWaypoints synthesizing waypoints whenever a target distance is given.
NeedsWaypoints_or_distance(req) ==
    req.is_loop \/ ~TruthyStr(req.end_location) \/ TruthyNum(req.distance_target_km)

\* does the request take a branch that geocodes the start (lines 125, 148)
NeedsWaypoints(req) == req.is_loop \/ ~TruthyStr(req.end_location)

\* The call up to its first collaborator call or early return: the next phase,
\* the locals, the result returned (if any) and the collaborator call made.
frr_begin(req) ==
    IF MissingDistance(req)
    THEN [pc |-> "FAILED", waypoints |-> None, end_location |-> req.end_location,
          result |-> Some([status |-> "error",
                           error_message |->
                             IF req.is_loop
                             THEN << "distance_target_km is required when is_loop=True" >>
                             ELSE << "distance_target_km is required for out-and-back routes" >>]),
          calls |-> << >>]
    ELSE IF NeedsWaypoints(req)
    THEN [pc |-> "RESOLVING_WAYPOINTS", waypoints |-> None,
          end_location |-> req.end_location, result |-> None,
          calls |-> << GeocodeCall(req.start_location) >>]
    ELSE [pc |-> "FETCHING_DIRECTIONS", waypoints |-> None,
          end_location |-> req.end_location, result |-> None,
          calls |-> << DirectionsCall(req.start_location, req.end_location[1], None) >>]

\* the waypoints synthesized from the geocoded centre (lines 138 and 162)
SynthesizeWaypoints(req, coords) ==
    IF req.is_loop
    THEN generate_loop_waypoints(coords.latitude, coords.longitude,
                                 req.distance_target_km[1], DefaultNumPoints)
    ELSE generate_out_and_back_waypoint(coords.latitude, coords.longitude,
                                        req.distance_target_km[1], 0)

\* frr_geocoded degrading to a direct route when geocoding fails.
frr_geocoded_degrade(req, coords) ==
    LET wps == IF coords.status # "success" THEN None
               ELSE Some(SynthesizeWaypoints(req, coords))
    IN [pc |-> "FETCHING_DIRECTIONS", waypoints |-> wps,
        end_location |-> Some(req.start_location), result |-> None,
        calls |-> << DirectionsCall(req.start_location, req.start_location, wps) >>]

\* frr_geocoded keeping a caller-supplied end_location.
frr_geocoded_keep_end(req, coords) ==
    IF coords.status # "success"
    THEN [pc |-> "FAILED", waypoints |-> None, end_location |-> req.end_location,
          result |-> Some(coords), calls |-> << >>]
    ELSE LET wps == Some(SynthesizeWaypoints(req, coords))
             dest == IF TruthyStr(req.end_location) THEN req.end_location[1]
                     ELSE req.start_location
         IN [pc |-> "FETCHING_DIRECTIONS", waypoints |-> wps,
             end_location |-> Some(dest), result |-> None,
             calls |-> << DirectionsCall(req.start_location, dest, wps) >>]

\* From the geocode result coords to the directions call or the return.
frr_geocoded(req, coords) ==
    IF coords.status # "success"
    THEN [pc |-> "FAILED", waypoints |-> None, end_location |-> req.end_location,
          result |-> Some(coords), calls |-> << >>]
    ELSE LET wps == Some(SynthesizeWaypoints(req, coords))
         IN [pc |-> "FETCHING_DIRECTIONS", waypoints |-> wps,
             end_location |-> Some(req.start_location), result |-> None,
             calls |-> << DirectionsCall(req.start_location, req.start_location, wps) >>]

\* frr_directed without the test of the status: the success branch is entered
\* whatever the directions result.
frr_directed_unchecked(res) == "COMPUTING_METRICS"

\* frr_directed retrying the directions call on an error.
frr_directed_retry(res) ==
    IF res.status = "success" THEN "COMPUTING_METRICS" ELSE "FETCHING_DIRECTIONS"

\* From the directions result to the metrics branch or the return (line 178).
frr_directed(res) ==
    IF res.status = "success" THEN "COMPUTING_METRICS" ELSE "FAILED"

\* StoreRoute writing the coordinates and leaving the distance as it was.
StoreRoute_coordinates_only(st, res, distance_km) ==
    [st EXCEPT !.route_coordinates = Some(res.path_coordinates)]

\* tool_context.state['route_coordinates'] = result['path_coordinates'] and
\* tool_context.state['route_distance_km'] = distance_km
StoreRoute(st, res, distance_km) ==
    [st EXCEPT !.route_coordinates = Some(res.path_coordinates),
               !.route_distance_km = Some(distance_km)]

\* MapsUrlArguments taking the destination the caller asked for.
MapsUrlArguments_requested(req, end_loc, wps) ==
    [origin |-> req.start_location,
     destination |-> IF TruthyStr(req.end_location) THEN req.end_location[1]
                     ELSE req.start_location,
     waypoints |-> wps]

\* the route handed to generate_google_maps_url (lines 199-204): the local
\* variables the directions call was made with
MapsUrlArguments(req, end_loc, wps) ==
    [origin |-> req.start_location, destination |-> end_loc[1], waypoints |-> wps]

\* The success branch (lines 179-212): the result returned, the collaborator
\* call made and tool_context.state afterwards.
frr_metrics(req, end_loc, wps, res, st) ==
    LET distance_km == res.total_distance
        url == MapsUrlArguments(req, end_loc, wps)
    IN ByValue(generate_google_maps_url(url.origin, url.destination, url.waypoints, Walking),
               LAMBDA maps_url :
        [result |->
            [distance_km |-> RoundHalfEven(distance_km, 10) * 10,
             estimated_times |-> EstimatedTimes(res),
             google_maps_url |-> maps_url.maps_url] @@ res,
         calls |-> << MapsUrlCall(url.origin, url.destination, url.waypoints, Walking),
                      ReturnEv("generate_google_maps_url", maps_url) >>,
         state |-> StoreRoute(st, res, distance_km)])

\* find_running_route of route_builder from its call to its return, with the
\* upstream replies to its geocode and directions requests: the result, the
\* collaborator calls made and tool_context.state afterwards
route_builder_find_running_route(req, geo_reply, dir_reply, st) ==
    LET b == frr_begin(req)
    IN IF b.pc = "FAILED"
       THEN [result |-> b.result[1], calls |-> b.calls, state |-> st]
       ELSE LET g == IF b.pc = "RESOLVING_WAYPOINTS"
                     THEN frr_geocoded(req, geocode_location(geo_reply))
                     ELSE [b EXCEPT !.calls = << >>]
                made == b.calls \o g.calls
            IN IF g.pc = "FAILED"
               THEN [result |-> g.result[1], calls |-> made, state |-> st]
               ELSE LET res == get_running_directions(dir_reply)
                    IN IF frr_directed(res) = "COMPUTING_METRICS"
                       THEN LET m == frr_metrics(req, g.end_location, g.waypoints, res, st)
                            IN [result |-> m.result, calls |-> made \o m.calls,
                                state |-> m.state]
                       ELSE [result |-> res, calls |-> made, state |-> st]

\* ------------------------------------------- coordinator/RouteFindingAgent
\* _geocode_location: the coordinates of the first result, or None
coordinator_geocode_location(resp) ==
    IF resp.kind = "json" /\ resp.status = "OK" /\ resp.results # << >>
    THEN Some([lat |-> resp.results[1].lat, lng |-> resp.results[1].lng])
    ELSE None

\* find_running_route of coordinator/RouteFindingAgent, in the same terms
coordinator_find_running_route(req, geo_reply, dir_reply, st) ==
    IF req.is_loop /\ ~TruthyNum(req.distance_target_km)
    THEN [result |-> [status |-> "error",
                      error_message |->
                          << "distance_target_km is required when is_loop=True" >>],
          calls |-> << >>, state |-> st]
    ELSE LET coords == IF req.is_loop THEN coordinator_geocode_location(geo_reply)
                       ELSE None
             geocoded == IF req.is_loop THEN << GeocodeCall(req.start_location) >>
                         ELSE << >>
         IN IF req.is_loop /\ coords = None
            THEN [result |-> [status |-> "error",
                              error_message |-> << "Could not geocode location: ",
                                                   req.start_location >>],
                  calls |-> geocoded, state |-> st]
            ELSE LET wps == IF req.is_loop
                            THEN Some(generate_loop_waypoints(
                                          coords[1].lat, coords[1].lng,
                                          req.distance_target_km[1], DefaultNumPoints))
                            ELSE None
                     end_loc == IF req.is_loop \/ ~TruthyStr(req.end_location)
                                THEN req.start_location
                                ELSE req.end_location[1]
                     made == geocoded
                             \o << DirectionsCall(req.start_location, end_loc, wps) >>
                     res == get_running_directions(dir_reply)
                 IN IF res.status = "success"
                    THEN LET m == frr_metrics(req, Some(end_loc), wps, res, st)
                         IN [result |-> m.result, calls |-> made \o m.calls,
                             state |-> m.state]
                    ELSE [result |-> res, calls |-> made, state |-> st]

\* ---------------------------------------------------------------- elevation
RECURSIVE SqrtIter(_, _)
SqrtIter(n, x) ==
    LET y == (x + n \div x) \div 2 IN IF y >= x THEN x ELSE SqrtIter(n, y)
\* the integer part of n ** 0.5
ISqrt(n) == IF n = 0 THEN 0 ELSE SqrtIter(n, n)

Max0(x) == IF x > 0 THEN x ELSE 0
RECURSIVE SeqMax(_)
SeqMax(s) == IF Len(s) = 1 THEN s[1]
             ELSE LET m == SeqMax(Tail(s)) IN IF s[1] >= m THEN s[1] ELSE m
RECURSIVE SeqMin(_)
SeqMin(s) == IF Len(s) = 1 THEN s[1]
             ELSE LET m == SeqMin(Tail(s)) IN IF s[1] <= m THEN s[1] ELSE m

\* the query parameters get_elevation_along_path sends (the API key left out)
ElevationParams(path_points, samples) ==
    [path |-> JoinStr([ i \in 1 .. Len(path_points) |->
                          WaypointStr(path_points[i][1], path_points[i][2]) ],
                      << "|" >>),
     samples |-> samples]

\* TotalGain summing every change of elevation, up or down.
TotalGain_abs(e) == SumSeq([ i \in 1 .. Len(e) - 1 |-> Abs(e[i + 1] - e[i]) ])

\* sum over i in range(1, len(e)) of max(0, e[i] - e[i-1])
TotalGain(e) == SumSeq([ i \in 1 .. Len(e) - 1 |-> Max0(e[i + 1] - e[i]) ])
\* sum over i in range(1, len(e)) of max(0, e[i-1] - e[i])
TotalLoss(e) == SumSeq([ i \in 1 .. Len(e) - 1 |-> Max0(e[i] - e[i + 1]) ])
\* round(x, 2) of a length in metres held in millimetres
Round2(mm) == RoundHalfEven(mm, 10) * 10

ValueError == "max() arg is an empty sequence"

\* the success result built from a non-empty data['results'] (lines 47-77)
ElevationSummary(results) ==
    LET elevations == [ i \in 1 .. Len(results) |->
                          [lat |-> results[i].location.lat,
                           lng |-> results[i].location.lng,
                           elevation |-> results[i].elevation] ]
        e == [ i \in 1 .. Len(elevations) |-> elevations[i].elevation ]
    IN [status |-> "success",
        elevation_profile |-> elevations,
        total_elevation_gain |-> Round2(TotalGain(e)),
        total_elevation_loss |-> Round2(TotalLoss(e)),
        max_elevation |-> SeqMax(e),
        min_elevation |-> SeqMin(e)]

\* get_elevation_along_path answering an empty profile with zeros when the
\* upstream has no sample.
get_elevation_along_path_lenient(resp) ==
    IF resp.kind = "exc"
    THEN [status |-> "error", error_message |-> << resp.message >>]
    ELSE IF resp.status = "OK"
    THEN IF resp.results = << >>
         THEN [status |-> "success", elevation_profile |-> << >>,
               total_elevation_gain |-> 0, total_elevation_loss |-> 0,
               max_elevation |-> 0, min_elevation |-> 0]
         ELSE ElevationSummary(resp.results)
    ELSE [status |-> "error",
          error_message |-> << "API returned status: ", resp.status >>]

\* max() of no elevation raises ValueError inside the try
get_elevation_along_path(resp) ==
    IF resp.kind = "exc"
    THEN [status |-> "error", error_message |-> << resp.message >>]
    ELSE IF resp.status = "OK"
    THEN IF resp.results = << >>
         THEN [status |-> "error", error_message |-> << ValueError >>]
         ELSE ElevationSummary(resp.results)
    ELSE [status |-> "error",
          error_message |-> << "API returned status: ", resp.status >>]

\* elevation gain thresholds of the difficulty tiers, in millimetres
RollingGain == 50000
HillyGain == 150000
VeryHillyGain == 300000
\* millimetres per micro-degree (111000 m per degree)
MmPerMicroDegree == 111

\* Difficulty with the thresholds belonging to the lower tier.
Difficulty_inclusive(gain) ==
    IF gain <= RollingGain THEN "Flat - Great for speed work"
    ELSE IF gain <= HillyGain THEN "Rolling - Moderate hills"
    ELSE IF gain <= VeryHillyGain THEN "Hilly - Challenging"
    ELSE "Very Hilly - Advanced"

Difficulty(gain) ==
    IF gain < RollingGain THEN "Flat - Great for speed work"
    ELSE IF gain < HillyGain THEN "Rolling - Moderate hills"
    ELSE IF gain < VeryHillyGain THEN "Hilly - Challenging"
    ELSE "Very Hilly - Advanced"
TrainingBenefit(gain) ==
    IF gain < RollingGain THEN "Perfect for tempo runs and interval training"
    ELSE IF gain < HillyGain THEN "Good for building leg strength and endurance"
    ELSE IF gain < VeryHillyGain THEN "Excellent hill training, builds power and stamina"
    ELSE "Serious hill work, great for race prep and strength"

\* total_distance_m, in millimetres, of a profile in micro-degrees
TotalDistance(profile) ==
    SumSeq([ i \in 1 .. Len(profile) - 1 |->
               ISqrt((profile[i + 1].lat - profile[i].lat) * (profile[i + 1].lat - profile[i].lat)
                     + (profile[i + 1].lng - profile[i].lng) * (profile[i + 1].lng - profile[i].lng))
               * MmPerMicroDegree ])

RECURSIVE LongDiv(_, _, _)
\* << q, r >> with a * 10^k = q * b + r and 0 <= r < b, for 0 <= a < b, one
\* decimal digit at a time (a * 10^k itself may exceed the integer range)
LongDiv(a, b, k) ==
    IF k = 0 THEN << 0, a >>
    ELSE LET p == LongDiv(a, b, k - 1)
         IN << p[1] * 10 + (p[2] * 10) \div b, (p[2] * 10) % b >>

\* AverageGrade dividing by at least one millimetre in place of the test for
\* a zero distance.
AverageGrade_floor_distance(gain, total_distance_m) ==
    LET dist == IF total_distance_m > 0 THEN total_distance_m ELSE 1
        d == LongDiv(gain % dist, dist, 4)
        q == (gain \div dist) * 10000 + d[1]
        up == (2 * d[2] > dist) \/ (2 * d[2] = dist /\ q % 2 = 1)
    IN IF up THEN q + 1 ELSE q

\* round(avg_grade, 2), in hundredths of a percent: gain / total_distance_m *
\* 100 rounded to two decimals, ties to even
AverageGrade(gain, total_distance_m) ==
    IF total_distance_m > 0
    THEN LET d == LongDiv(gain % total_distance_m, total_distance_m, 4)
             q == (gain \div total_distance_m) * 10000 + d[1]
             up == (2 * d[2] > total_distance_m)
                   \/ (2 * d[2] = total_distance_m /\ q % 2 = 1)
         IN IF up THEN q + 1 ELSE q
    ELSE 0

\* analyze_elevation_for_runners discarding the stored route when the profile
\* cannot be fetched.
analyze_elevation_discard(path_coordinates, samples, st, resp) ==
    LET res == get_elevation_along_path(resp)
    IN [result |-> res,
        state |-> IF res.status = "success" THEN st
                  ELSE [st EXCEPT !.route_coordinates = None,
                                  !.route_distance_km = None]]

\* the result returned and tool_context.state afterwards
analyze_elevation_for_runners(path_coordinates, samples, st, resp) ==
    LET res == get_elevation_along_path(resp)
    IN IF res.status = "success"
       THEN LET gain == res.total_elevation_gain
                total_distance_m == TotalDistance(res.elevation_profile)
            IN [result |->
                   [difficulty_rating |-> Difficulty(gain),
                    training_benefit |-> TrainingBenefit(gain),
                    average_grade |-> AverageGrade(gain, total_distance_m),
                    runner_recommendation |->
                        << "This route has ", RoundHalfEven(gain, 1000),
                           "m elevation gain over approximately ",
                           RoundHalfEven(total_distance_m, 100000), "km. ",
                           Difficulty(gain), ". ", TrainingBenefit(gain), "." >>]
                   @@ res,
                state |-> st]
       ELSE [result |-> res, state |-> st]

\* the keys analyze_elevation_for_runners adds and the gain/loss keys of the
\* profile
TerrainKeys == { "difficulty_rating", "training_benefit", "average_grade",
                 "runner_recommendation", "total_elevation_gain",
                 "total_elevation_loss" }

\* ------------------------------------------------------------ location_scout
\* the result returned and tool_context.state afterwards
scout_running_location(location_name, st, resp) ==
    LET res == geocode_location(resp)
    IN [result |-> res,
        state |-> IF res.status = "success"
                  THEN [st EXCEPT !.location[location_name] =
                                      Some([lat |-> res.latitude, lng |-> res.longitude])]
                  ELSE st]

\* ------------------------------------------------------------------ workflow
\* information_gathering = ParallelAgent(sub_agents=[location_scout,
\* google_search_agent]): its sub-agents run concurrently.
information_gathering == { "location_scout", "google_search_agent" }
\* workflow = SequentialAgent(sub_agents=[information_gathering, route_builder,
\* elevation_analyst]): a stage starts when every agent of the stages before it
\* has finished; the agents of one stage run concurrently.
\* the workflow with route_builder and elevation_analyst in one parallel stage
workflow_parallel_tail ==
    << information_gathering, { "route_builder", "elevation_analyst" } >>
\* the workflow with route_builder inside the parallel stage
workflow_parallel_head ==
    << information_gathering \cup { "route_builder" }, { "elevation_analyst" } >>
workflow == << information_gathering, { "route_builder" }, { "elevation_analyst" } >>
Agents == UNION { workflow[i] : i \in 1 .. Len(workflow) }
StageOf(a) == CHOOSE i \in 1 .. Len(workflow) : a \in workflow[i]

\* ------------------------------------------------------------------- inputs
EyreSquare == << "E", "y", "r", "e", " ", "S", "q" >>
Salthill == << "S", "a", "l", "t", "h", "i", "l", "l" >>
ScoutNames == { EyreSquare }
\* a centre at (-45.0, 170.5)
Otago == [lat |-> -45000000, lng |-> 170500000]

Requests ==
    [start_location : { EyreSquare },
     end_location : { None, Some(<< >>), Some(Salthill) },
     distance_target_km : { None, Some(0), Some(-5000), Some(5000) },
     is_loop : BOOLEAN]
LoopDistances == { 0, -5000, 5000 }

GeocodeResult(c, address) ==
    [lat |-> c.lat, lng |-> c.lng, formatted_address |-> address, place_id |-> Some("pid")]
GeocodeReplies ==
    { [kind |-> "exc", message |-> "connection refused"],
      [kind |-> "json", status |-> "ZERO_RESULTS", results |-> << >>],
      [kind |-> "json", status |-> "OK", results |-> << >>],
      [kind |-> "json", status |-> "OK",
       results |-> << GeocodeResult(Galway, "Eyre Square, Galway") >>],
      [kind |-> "json", status |-> "OK",
       results |-> << GeocodeResult(Otago, "Otago"), GeocodeResult(Galway, "Galway") >>] }

Step(lat, lng) == [start_location |-> << lat, lng >>]
Leg(steps, end, dist, dur) ==
    [steps |-> steps, end_location |-> end,
     distance |-> [value |-> dist, text |-> << dist, " m" >>],
     duration |-> [value |-> dur, text |-> << dur, " s" >>],
     start_address |-> "from", end_address |-> "to"]
RouteA ==
    [summary |-> Some("Quay St"),
     legs |-> << Leg(<< Step(53274500, -9049400), Step(53271000, -9053000) >>,
                     << 53259000, -9075000 >>, 2530, 1860) >>]
RouteB ==
    [summary |-> None,
     legs |-> << Leg(<< Step(53274500, -9049400) >>, << 53278000, -9043000 >>, 1210, 900),
                 Leg(<< >>, << 53270000, -9040000 >>, 0, 0),
                 Leg(<< Step(53270000, -9040000), Step(53272000, -9046000) >>,
                     << 53274500, -9049400 >>, 4020, 2950) >>]
DirectionsReplies ==
    { [kind |-> "exc", message |-> "read timed out"],
      [kind |-> "json", status |-> "NOT_FOUND", routes |-> << >>],
      [kind |-> "json", status |-> "OK", routes |-> << >>],
      [kind |-> "json", status |-> "OK", routes |-> << [summary |-> None, legs |-> << >>] >>],
      [kind |-> "json", status |-> "OK", routes |-> << RouteA >>],
      [kind |-> "json", status |-> "OK", routes |-> << RouteB, RouteA >>] }

Sample(lat, lng, elevation) ==
    [location |-> [lat |-> lat, lng |-> lng], elevation |-> elevation]
ElevationReplies ==
    { [kind |-> "exc", message |-> "read timed out"],
      [kind |-> "json", status |-> "INVALID_REQUEST", results |-> << >>],
      [kind |-> "json", status |-> "OK", results |-> << >>],
      [kind |-> "json", status |-> "OK",
       results |-> << Sample(0, 0, 100000), Sample(0, 1000, 120000), Sample(0, 2000, 110000) >>],
      [kind |-> "json", status |-> "OK", results |-> << Sample(53274500, -9049400, 12345) >>],
      [kind |-> "json", status |-> "OK",
       results |-> << Sample(0, 0, 10000), Sample(3000, 4000, 160004), Sample(3000, 4000, 5000) >>] }
\* the paths the elevation_analyst's model may pass: the stored route, or one
\* of its own making
ElevationPaths(st) ==
    { << << 0, 0 >>, << 0, 2000 >> >> }
    \cup (IF st.route_coordinates = None THEN { } ELSE { st.route_coordinates[1] })
SampleCounts == { 100 }

\* --------------------------------------------------------------------- state
VARIABLES
    agent,         \* agent name -> "idle", "running" or "done" in this workflow run
    ncalls,        \* agent name -> tool calls made so far in its run
    state,         \* tool_context.state, shared by all agents of the session
    pc,            \* phase of the current find_running_route call
    request,       \* its arguments
    end_location,  \* its local end_location
    waypoints,     \* its local waypoints
    result,        \* its local result
    calls,         \* its log: collaborator calls and returns, in order
    elevation,     \* the last call of analyze_elevation_for_runners
    directions_failed, \* history: a directions call of this run returned an error
    applied        \* the function application under study: name, arguments, value

vars == << agent, ncalls, state, pc, request, end_location, waypoints, result,
           calls, elevation, directions_failed, applied >>
frr_vars == << pc, request, end_location, waypoints, result, calls >>

Init ==
    /\ agent = [a \in Agents |-> "idle"]
    /\ ncalls = [a \in Agents |-> 0]
    /\ state = [route_coordinates |-> None, route_distance_km |-> None,
                location |-> [n \in ScoutNames |-> None]]
    /\ pc = "idle"
    /\ request = None
    /\ end_location = None
    /\ waypoints = None
    /\ result = None
    /\ calls = << >>
    /\ elevation = None
    /\ directions_failed = FALSE
    /\ applied = None

\* --------------------------------------------------------------- agent runs
CanStart(a) ==
    /\ agent[a] = "idle"
    /\ \A i \in 1 .. StageOf(a) - 1 : \A b \in workflow[i] : agent[b] = "done"

AgentStart(a) ==
    /\ CanStart(a)
    /\ agent' = [agent EXCEPT ![a] = "running"]
    /\ UNCHANGED << ncalls, state, frr_vars, elevation, directions_failed, applied >>

\* An agent's run ends between its tool calls; the locals of its last tool
\* call are gone by then.
AgentFinish(a) ==
    /\ agent[a] = "running"
    /\ a = "route_builder" => pc \in { "idle" } \cup Returned
    /\ agent' = [agent EXCEPT ![a] = "done"]
    /\ ncalls' = [ncalls EXCEPT ![a] = 0]
    /\ IF a = "route_builder"
       THEN /\ pc' = "idle"
            /\ request' = None
            /\ end_location' = None
            /\ waypoints' = None
            /\ result' = None
            /\ calls' = << >>
       ELSE UNCHANGED frr_vars
    /\ UNCHANGED << state, elevation, directions_failed, applied >>

MayCall(a) == agent[a] = "running" /\ ncalls[a] < MaxToolCalls

\* ------------------------------------------------------------- tool calls
ScoutRunningLocation(location_name, resp) ==
    /\ MayCall("location_scout")
    /\ ncalls' = [ncalls EXCEPT !["location_scout"] = @ + 1]
    /\ state' = scout_running_location(location_name, state, resp).state
    /\ UNCHANGED << agent, frr_vars, elevation, directions_failed, applied >>

\* the google_search tool: no effect on the session state
GoogleSearch ==
    /\ MayCall("google_search_agent")
    /\ ncalls' = [ncalls EXCEPT !["google_search_agent"] = @ + 1]
    /\ UNCHANGED << agent, state, frr_vars, elevation, directions_failed, applied >>

\* find_running_route is called: it runs to its first collaborator call or
\* returns an error
FindRunningRoute(req) ==
    /\ MayCall("route_builder")
    /\ pc \in { "idle" } \cup Returned
    /\ ncalls' = [ncalls EXCEPT !["route_builder"] = @ + 1]
    /\ LET b == frr_begin(req)
       IN /\ pc' = b.pc
          /\ request' = Some(req)
          /\ end_location' = b.end_location
          /\ waypoints' = b.waypoints
          /\ result' = b.result
          /\ calls' = b.calls
    /\ UNCHANGED << agent, state, elevation, directions_failed, applied >>

\* suggest_loop_routes(location, distance_km, tool_context)
SuggestLoopRoutes(location, distance_km) ==
    FindRunningRoute([start_location |-> location, end_location |-> None,
                      distance_target_km |-> Some(distance_km), is_loop |-> TRUE])

\* geocode_location returns to find_running_route
GeocodeReturns(resp) ==
    /\ pc = "RESOLVING_WAYPOINTS"
    /\ LET coords == geocode_location(resp)
           g == frr_geocoded(request[1], coords)
       IN /\ pc' = g.pc
          /\ end_location' = g.end_location
          /\ waypoints' = g.waypoints
          /\ result' = g.result
          /\ calls' = calls \o << ReturnEv("geocode_location", coords) >> \o g.calls
    /\ UNCHANGED << agent, ncalls, state, request, elevation, directions_failed, applied >>

\* get_running_directions returns to find_running_route
DirectionsReturns(resp) ==
    /\ pc = "FETCHING_DIRECTIONS"
    /\ LET res == get_running_directions(resp)
       IN /\ result' = Some(res)
          /\ pc' = frr_directed(res)
          /\ calls' = calls \o << ReturnEv("get_running_directions", res) >>
          /\ directions_failed' = (directions_failed \/ res.status # "success")
    /\ UNCHANGED << agent, ncalls, state, request, end_location, waypoints, elevation,
                    applied >>

\* the success branch of find_running_route, to its return
ComputeMetrics ==
    /\ pc = "COMPUTING_METRICS"
    /\ LET m == frr_metrics(request[1], end_location, waypoints, result[1], state)
       IN /\ result' = Some(m.result)
          /\ calls' = calls \o m.calls
          /\ state' = m.state
    /\ pc' = "DONE"
    /\ UNCHANGED << agent, ncalls, request, end_location, waypoints, elevation,
                    directions_failed, applied >>

AnalyzeElevation(path_coordinates, samples, resp) ==
    /\ MayCall("elevation_analyst")
    /\ ncalls' = [ncalls EXCEPT !["elevation_analyst"] = @ + 1]
    /\ LET a == analyze_elevation_for_runners(path_coordinates, samples, state, resp)
       IN /\ elevation' = Some([path_coordinates |-> path_coordinates,
                                params |-> ElevationParams(path_coordinates, samples),
                                result |-> a.result])
          /\ state' = a.state
    /\ UNCHANGED << agent, frr_vars, directions_failed, applied >>

Next ==
    \/ \E a \in Agents : AgentStart(a)
    \/ \E a \in Agents : AgentFinish(a)
    \/ \E n \in ScoutNames, r \in GeocodeReplies : ScoutRunningLocation(n, r)
    \/ GoogleSearch
    \/ \E req \in Requests : FindRunningRoute(req)
    \/ \E d \in LoopDistances : SuggestLoopRoutes(EyreSquare, d)
    \/ \E r \in GeocodeReplies : GeocodeReturns(r)
    \/ \E r \in DirectionsReplies : DirectionsReturns(r)
    \/ ComputeMetrics
    \/ \E p \in ElevationPaths(state), s \in SampleCounts, r \in ElevationReplies :
           AnalyzeElevation(p, s, r)

Spec == Init /\ [][Next]_vars

\* Every collaborator call returns and the code after it runs.
FairSpec ==
    /\ Spec
    /\ WF_vars(\E r \in GeocodeReplies : GeocodeReturns(r))
    /\ WF_vars(\E r \in DirectionsReplies : DirectionsReturns(r))
    /\ WF_vars(ComputeMetrics)

\* ------------------------------------------------- function applications
\* The functions of the pipeline applied on their own: an application starts
\* with the function's name and arguments and ends with the value it returns.
\* The workflow stands still meanwhile.
workflow_vars == << agent, ncalls, state, pc, request, end_location, waypoints,
                    result, calls, elevation, directions_failed >>

\* bounds of the arguments
MaxNumPoints == 8
MaxProfileLen == 3
MaxWaypoints == 2
MaxLegs == 2

\* all sequences over S of length 0 .. n
SeqsUpTo(S, n) == UNION { [1 .. k -> S] : k \in 0 .. n }

\* a centre on the equator
Equator == [lat |-> 0, lng |-> 0]
Centres == { Galway, Otago, Equator }
\* target distances in metres
Distances == { 1000, 5000, 10000 }
\* the numbers of points whose angle step is a whole multiple of 15 degrees
NumPoints == { n \in 1 .. MaxNumPoints : 360 % n = 0 /\ (360 \div n) % 15 = 0 }
Directions == { 0, 90, 180, 270 }

\* the requests that reach waypoint synthesis, and the geocode results they
\* can have
SynthesisRequests == { r \in Requests : NeedsWaypoints(r) /\ ~MissingDistance(r) }
GeocodedCentres ==
    { geocode_location(r) : r \in { x \in GeocodeReplies : geocode_location(x).status = "success" } }

\* elevations in millimetres, and the reply whose samples have the elevations e
Elevations == { 0, 4, 12346, 100000 }
ProfileReply(e) ==
    [kind |-> "json", status |-> "OK",
     results |-> [ i \in 1 .. Len(e) |-> Sample(0, 1000 * (i - 1), e[i]) ]]
ProfileReplies ==
    { ProfileReply(e) : e \in SeqsUpTo(Elevations, MaxProfileLen) }
    \cup { r \in ElevationReplies : r.kind = "exc" \/ r.status # "OK" }
\* replies whose gain lies on and around the tier thresholds
TierGains == { 0, 49990, 49994, 49996, 50000, 50010, 149990, 149996, 150000,
               299990, 300000, 300010, 900000 }
TierReplies ==
    { ProfileReply(<< 20000, 20000 + g, 1000 >>) : g \in TierGains }
    \cup { ProfileReply(<< 20000 >>) }

\* replies whose samples all lie at one coordinate, at different elevations
StationaryReplies ==
    { [kind |-> "json", status |-> "OK",
       results |-> [ i \in 1 .. Len(e) |-> Sample(53274500, -9049400, e[i]) ]] :
        e \in { << 20000, 60000 >>, << 60000, 20000, 30000 >>, << 4, 4, 4 >>, << 12346 >> } }

\* location strings with the characters a URL treats specially
SlashName == << "A", "/", "B" >>
UrlStrings == { EyreSquare, << "5", "3", ".", "2", ",", "-", "9" >>,
                << "5", "0", "%", "?" >>, SlashName }
UrlWaypoints == { << "a", " ", "b" >>, << "1", ",", "2" >>, << >> }
Driving == << "d", "r", "i", "v", "i", "n", "g" >>

\* directions replies with 1 .. MaxLegs legs of 0 .. 2 steps
LegShapes ==
    { Leg(<< Step(53274500, -9049400), Step(53271000, -9053000) >>,
          << 53259000, -9075000 >>, 2530, 1860),
      Leg(<< >>, << 53270000, -9040000 >>, 0, 0),
      Leg(<< Step(53270000, -9040000) >>, << 53274500, -9049400 >>, 4020, 2950) }
LegReplies ==
    { [kind |-> "json", status |-> "OK",
       routes |-> << [summary |-> None, legs |-> l] >> \o alt] :
        l \in SeqsUpTo(LegShapes, MaxLegs), alt \in { << >>, << RouteA >>, << RouteB >> } }
PureDirectionsReplies == DirectionsReplies \cup LegReplies

\* the answers an upstream gives to a first and to a second request
ReplySequences ==
    { << r1, r2 >> : r1 \in DirectionsReplies,
                     r2 \in { x \in DirectionsReplies : x.kind = "exc" \/ x.routes = << RouteA >> } }
\* pairs of OK replies with the same first route and the same number of
\* routes, and different alternatives
SameFirstRoute ==
    { << a, b >> \in LegReplies \X LegReplies :
        /\ a # b
        /\ a.routes[1] = b.routes[1]
        /\ Len(a.routes) = Len(b.routes) }

\* directions results of one leg with the same total_distance and different
\* total_duration
PaceDistances == { 0, 1000, 2530, 3000, 5000, 42195 }
PaceDurations == { 600, 1860, 3600 }
PaceResult(dist, dur) ==
    get_running_directions(
        [kind |-> "json", status |-> "OK",
         routes |-> << [summary |-> None,
                        legs |-> << Leg(<< Step(53274500, -9049400) >>,
                                        << 53259000, -9075000 >>, dist, dur) >>] >>])
SameDistance ==
    { << PaceResult(d, t1), PaceResult(d, t2) >> :
        d \in PaceDistances, t1 \in PaceDurations, t2 \in PaceDurations \ { 1860 } }

\* upstream places: the i-th has its own name and position; every third has no
\* vicinity and every fourth no rating
MaxPlaces == 6
PlaceResult(i) ==
    [name |-> << "park", i >>,
     vicinity |-> IF i % 3 = 0 THEN None ELSE Some(<< i, " Quay St" >>),
     rating |-> IF i % 4 = 0 THEN None ELSE Some(30 + i),
     lat |-> 53270000 + 1000 * i, lng |-> -9050000 - 1000 * i]
\* replies of k = 0 .. MaxPlaces results, in several orders
PlacesReplies ==
    { [kind |-> "json", status |-> "OK",
       results |-> [ i \in 1 .. k |-> PlaceResult(IF up THEN from + i ELSE from + k + 1 - i) ]] :
        k \in 0 .. MaxPlaces, from \in 0 .. 2, up \in BOOLEAN }
    \cup { [kind |-> "exc", message |-> "read timed out"],
           [kind |-> "json", status |-> "ZERO_RESULTS", results |-> << >>],
           [kind |-> "json", status |-> "OVER_QUERY_LIMIT", results |-> << >>] }

\* the replies to the park search of find_running_start_points
ParkReplies ==
    { r \in PlacesReplies : r.kind = "exc" \/ r.status # "OK" \/ Len(r.results) <= 1 }

\* the directions replies given to both implementations of find_running_route
BothDirectionsReplies ==
    { r \in DirectionsReplies : r.kind = "exc" \/ r.status # "OK" \/ r.routes = << RouteA >> }

Application(fn, args) == [fn |-> fn, args |-> args, value |-> None]

PureInit ==
    /\ agent = [a \in Agents |-> "idle"]
    /\ ncalls = [a \in Agents |-> 0]
    /\ state = [route_coordinates |-> None, route_distance_km |-> None,
                location |-> [n \in ScoutNames |-> None]]
    /\ pc = "idle"
    /\ request = None
    /\ end_location = None
    /\ waypoints = None
    /\ result = None
    /\ calls = << >>
    /\ elevation = None
    /\ directions_failed = FALSE
    /\ \/ \E c \in Centres, d \in Distances, n \in NumPoints :
              applied = Application("_generate_loop_waypoints",
                  [lat |-> c.lat, lng |-> c.lng, distance_km |-> d, num_points |-> n])
       \/ \E c \in Centres, d \in Distances, b \in Directions :
              applied = Application("_generate_out_and_back_waypoint",
                  [lat |-> c.lat, lng |-> c.lng, distance_km |-> d, direction |-> b])
       \/ \E r \in SynthesisRequests, c \in GeocodedCentres :
              applied = Application("find_running_route.waypoints",
                  [request |-> r, coords |-> c])
       \/ \E r \in PureDirectionsReplies :
              applied = Application("get_running_directions", [reply |-> r])
       \/ \E o \in UrlStrings, d \in { Salthill, SlashName },
             w \in { None } \cup { Some(l) : l \in SeqsUpTo(UrlWaypoints, MaxWaypoints) },
             m \in { Walking, Driving } :
              applied = Application("generate_google_maps_url",
                  [origin |-> o, destination |-> d, waypoints |-> w, travel_mode |-> m])
       \/ \E r \in { x \in Requests : ~MissingDistance(x) },
             d \in { x \in PureDirectionsReplies : get_running_directions(x).status = "success" } :
              applied = Application("find_running_route.metrics",
                  [request |-> r, directions |-> get_running_directions(d)])
       \/ \E r \in ProfileReplies :
              applied = Application("get_elevation_along_path", [reply |-> r])
       \/ \E r \in TierReplies \cup StationaryReplies :
              applied = Application("analyze_elevation_for_runners",
                  [path_coordinates |-> << << 0, 0 >>, << 0, 2000 >> >>,
                   samples |-> 100, reply |-> r])
       \/ \E w \in { None, Some(<< << "1", ",", "2" >> >>) }, rs \in ReplySequences :
              applied = Application("get_running_directions (upstream)",
                  [origin |-> EyreSquare, destination |-> Salthill, waypoints |-> w,
                   replies |-> rs])
       \/ \E p \in SameFirstRoute :
              applied = Application("get_running_directions (two replies)",
                  [reply_a |-> p[1], reply_b |-> p[2]])
       \/ \E r \in { x \in Requests : ~MissingDistance(x) /\ ~NeedsWaypoints(x) },
             p \in { x \in SameDistance : x[1].total_duration # x[2].total_duration } :
              applied = Application("find_running_route.metrics (two durations)",
                  [request |-> r, directions_a |-> p[1], directions_b |-> p[2]])
       \/ \E r \in PlacesReplies :
              applied = Application("find_nearby_places", [reply |-> r])
       \/ \E g \in GeocodeReplies, p \in ParkReplies :
              applied = Application("find_running_start_points",
                  [location |-> EyreSquare, geocode_reply |-> g, places_reply |-> p])
       \/ \E r \in Requests, g \in GeocodeReplies, d \in BothDirectionsReplies :
              applied = Application("find_running_route (both implementations)",
                  [request |-> r, geocode_reply |-> g, directions_reply |-> d])

Pending(fn) == applied # None /\ applied.fn = fn /\ applied.value = None
Returns(v) ==
    /\ applied' = [applied EXCEPT !.value = Some(v)]
    /\ UNCHANGED workflow_vars

GenerateLoopWaypoints ==
    /\ Pending("_generate_loop_waypoints")
    /\ Returns(generate_loop_waypoints(applied.args.lat, applied.args.lng,
                                       applied.args.distance_km, applied.args.num_points))

GenerateOutAndBackWaypoint ==
    /\ Pending("_generate_out_and_back_waypoint")
    /\ Returns(generate_out_and_back_waypoint(applied.args.lat, applied.args.lng,
                                              applied.args.distance_km,
                                              applied.args.direction))

\* the waypoints find_running_route synthesizes once the start is geocoded
RouteWaypoints ==
    /\ Pending("find_running_route.waypoints")
    /\ Returns(SynthesizeWaypoints(applied.args.request, applied.args.coords))

GetRunningDirections ==
    /\ Pending("get_running_directions")
    /\ Returns(get_running_directions(applied.args.reply))

GenerateGoogleMapsUrl ==
    /\ Pending("generate_google_maps_url")
    /\ Returns(generate_google_maps_url(applied.args.origin, applied.args.destination,
                                        applied.args.waypoints, applied.args.travel_mode))

\* the success branch of find_running_route on a directions result, with the
\* end_location and waypoints its earlier branches leave
RouteMetrics ==
    /\ Pending("find_running_route.metrics")
    /\ LET req == applied.args.request
           coords == CHOOSE c \in GeocodedCentres : TRUE
           end_loc == IF NeedsWaypoints(req) THEN Some(req.start_location)
                      ELSE req.end_location
           wps == IF NeedsWaypoints(req) THEN Some(SynthesizeWaypoints(req, coords))
                  ELSE None
       IN Returns(frr_metrics(req, end_loc, wps, applied.args.directions, state))

GetElevationAlongPath ==
    /\ Pending("get_elevation_along_path")
    /\ Returns(get_elevation_along_path(applied.args.reply))

AnalyzeElevationForRunners ==
    /\ Pending("analyze_elevation_for_runners")
    /\ Returns(analyze_elevation_for_runners(applied.args.path_coordinates,
                                             applied.args.samples, state,
                                             applied.args.reply).result)

\* one call of get_running_directions and the upstream requests it makes
DirectionsExchange ==
    /\ Pending("get_running_directions (upstream)")
    /\ Returns(directions_exchange(applied.args.origin, applied.args.destination,
                                   applied.args.waypoints, applied.args.replies))

\* get_running_directions on each of two replies
GetRunningDirectionsTwice ==
    /\ Pending("get_running_directions (two replies)")
    /\ Returns([a |-> get_running_directions(applied.args.reply_a),
                b |-> get_running_directions(applied.args.reply_b)])

\* the success branch of find_running_route on each of two directions results
RouteMetricsTwice ==
    /\ Pending("find_running_route.metrics (two durations)")
    /\ LET req == applied.args.request
       IN Returns([a |-> frr_metrics(req, req.end_location, None,
                                     applied.args.directions_a, state).result,
                   b |-> frr_metrics(req, req.end_location, None,
                                     applied.args.directions_b, state).result])

FindNearbyPlaces ==
    /\ Pending("find_nearby_places")
    /\ Returns(find_nearby_places(applied.args.reply))

FindRunningStartPoints ==
    /\ Pending("find_running_start_points")
    /\ Returns(find_running_start_points(applied.args.location,
                                         applied.args.geocode_reply,
                                         applied.args.places_reply))

\* the same request and upstream replies given to find_running_route of
\* route_builder and of coordinator/RouteFindingAgent
FindRunningRouteBoth ==
    /\ Pending("find_running_route (both implementations)")
    /\ LET a == applied.args
       IN Returns([route_builder |->
                       route_builder_find_running_route(a.request, a.geocode_reply,
                                                        a.directions_reply, state),
                   coordinator |->
                       coordinator_find_running_route(a.request, a.geocode_reply,
                                                      a.directions_reply, state)])

PureNext ==
    \/ GenerateLoopWaypoints
    \/ GenerateOutAndBackWaypoint
    \/ RouteWaypoints
    \/ GetRunningDirections
    \/ GenerateGoogleMapsUrl
    \/ RouteMetrics
    \/ GetElevationAlongPath
    \/ AnalyzeElevationForRunners
    \/ DirectionsExchange
    \/ GetRunningDirectionsTwice
    \/ RouteMetricsTwice
    \/ FindNearbyPlaces
    \/ FindRunningStartPoints
    \/ FindRunningRouteBoth

PureSpec == PureInit /\ [][PureNext]_vars

\* ------------------------------------------------------------------- claims
\* a step that is a new call of find_running_route (or suggest_loop_routes)
NewRouteCall == ncalls'["route_builder"] = ncalls["route_builder"] + 1
\* a step that is a call of analyze_elevation_for_runners
NewElevationCall == ncalls'["elevation_analyst"] = ncalls["elevation_analyst"] + 1

EventsOf(log, ev, fn) == { i \in 1 .. Len(log) : log[i].ev = ev /\ log[i].fn = fn }
Collaborators == { "geocode_location", "get_running_directions" }
ErrorReturns(log) ==
    { i \in 1 .. Len(log) : log[i].ev = "return" /\ log[i].result.status # "success" }
AddedKeys == { "distance_km", "estimated_times", "google_maps_url" }

\* C1: when the directions call returns an error, find_running_route returns
\* exactly that error result: no distance_km, estimated_times or
\* google_maps_url is added, generate_google_maps_url is not called, and
\* tool_context.state is unchanged; nothing more happens in that call.
C1_DirectionsErrorReturned ==
    [][ /\ ( /\ pc = "FETCHING_DIRECTIONS"
             /\ pc' # pc
             /\ calls'[Len(calls')].result.status # "success" )
           => /\ pc' = "FAILED"
              /\ calls'[Len(calls')].fn = "get_running_directions"
              /\ result' = Some(calls'[Len(calls')].result)
              /\ DOMAIN result'[1] \cap AddedKeys = { }
              /\ EventsOf(calls', "call", "generate_google_maps_url") = { }
              /\ state' = state
        /\ (pc = "FAILED" /\ ~NewRouteCall /\ agent' = agent)
           => UNCHANGED << pc, result, calls, state >> ]_vars

\* C1 witness: a call has returned a directions error after an earlier call had
\* stored a route.
C1_Witness ==
    /\ pc = "FAILED"
    /\ calls # << >>
    /\ calls[Len(calls)].fn = "get_running_directions"
    /\ result[1].status = "error"
    /\ state.route_coordinates # None

\* the order of the events of one call's log
LogOrdered(log) ==
    \* the geocode call has returned before the directions call starts
    /\ \A i \in EventsOf(log, "call", "get_running_directions") :
           /\ \A j \in EventsOf(log, "call", "geocode_location") :
                  \E k \in EventsOf(log, "return", "geocode_location") : j < k /\ k < i
    \* the map URL is built only after a successful directions result
    /\ \A i \in EventsOf(log, "call", "generate_google_maps_url") :
           \E j \in EventsOf(log, "return", "get_running_directions") :
               j < i /\ log[j].result.status = "success"
    \* nothing is called after a collaborator has returned an error
    /\ \A i \in ErrorReturns(log) : i = Len(log)

\* the phase changes of one call, and the phases a new call starts in
PhaseStep ==
    IF NewRouteCall
    THEN pc \in { "idle" } \cup Returned
         /\ pc' \in { "RESOLVING_WAYPOINTS", "FETCHING_DIRECTIONS", "FAILED" }
    ELSE \/ pc' = pc
         \/ pc = "RESOLVING_WAYPOINTS" /\ pc' \in { "FETCHING_DIRECTIONS", "FAILED" }
         \/ pc = "FETCHING_DIRECTIONS" /\ pc' \in { "COMPUTING_METRICS", "FAILED" }
         \/ pc = "COMPUTING_METRICS" /\ pc' = "DONE"
         \/ pc \in Returned /\ pc' = "idle"

\* C2: a call of find_running_route passes through RESOLVING_WAYPOINTS,
\* FETCHING_DIRECTIONS, COMPUTING_METRICS, DONE in that order only: geocode has
\* returned before directions is called, metrics and the map URL come only
\* after a successful directions result, and after a collaborator error no
\* further collaborator is called.
C2_PhaseOrder ==
    [][ /\ PhaseStep
        /\ LogOrdered(calls')
        /\ (pc' = "COMPUTING_METRICS" \/ pc' = "DONE")
           => \E j \in EventsOf(calls', "return", "get_running_directions") :
                  calls'[j].result.status = "success" ]_vars

\* C2 witness: a call that geocoded, fetched directions and computed metrics
\* has returned.
C2_Witness ==
    /\ pc = "DONE"
    /\ EventsOf(calls, "return", "geocode_location") # { }
    /\ EventsOf(calls, "call", "generate_google_maps_url") # { }

InProgress == { "RESOLVING_WAYPOINTS", "FETCHING_DIRECTIONS", "COMPUTING_METRICS" }

\* geocode and directions are each called, and each return, at most once in
\* one call, and a returned call has exactly one outcome
OneOutcome ==
    /\ \A fn \in Collaborators :
           /\ Cardinality(EventsOf(calls, "call", fn)) <= 1
           /\ Cardinality(EventsOf(calls, "return", fn)) <= 1
    /\ pc \in Returned => result # None
    /\ pc = "DONE" => result[1].status = "success"
    /\ pc = "FAILED" => result[1].status = "error"

\* C3: for every request and every outcome of geocode and directions, a call
\* of find_running_route whose collaborators return reaches exactly one
\* terminal outcome, DONE (success) or FAILED (error), calling geocode at most
\* once and directions at most once.
C3_Terminates ==
    /\ []OneOutcome
    /\ (pc \in InProgress) ~> (pc \in Returned)

\* C3 witness: a call has failed on an exception of the directions request
\* after a successful geocode.
C3_Witness ==
    /\ pc = "FAILED"
    /\ EventsOf(calls, "return", "geocode_location") # { }
    /\ result[1].error_message = << "read timed out" >>

\* the requests of C4: no target distance, for a loop or for a route with no
\* end and no loop
NoDistanceRequest(req) ==
    /\ IsNone(req.distance_target_km)
    /\ req.is_loop \/ IsNone(req.end_location)

\* C4: a request with is_loop true and no distance_target_km, or with no
\* end_location, is_loop false and no distance_target_km, returns an error
\* before any geocode or directions call and without writing
\* tool_context.state.
C4_MissingDistanceRejected ==
    [][ (NewRouteCall /\ NoDistanceRequest(request'[1]))
        => /\ pc' = "FAILED"
           /\ result'[1].status = "error"
           /\ calls' = << >>
           /\ state' = state ]_vars

\* C4 witness: an out-and-back request with no distance was refused after an
\* earlier call had stored a route.
C4_Witness ==
    /\ pc = "FAILED"
    /\ calls = << >>
    /\ ~request[1].is_loop
    /\ IsNone(request[1].end_location)
    /\ IsNone(request[1].distance_target_km)
    /\ state.route_coordinates # None

\* C5 (as claimed): for a loop or out-and-back request whose target distance is
\* zero or negative, no waypoints are produced, no directions call is made and
\* the call returns an error.
C5_NonPositiveDistanceRejected ==
    ( /\ request # None
      /\ request[1].is_loop \/ ~TruthyStr(request[1].end_location)
      /\ request[1].distance_target_km # None
      /\ request[1].distance_target_km[1] <= 0 )
    => /\ waypoints = None
       /\ EventsOf(calls, "call", "get_running_directions") = { }
       /\ pc \in Returned => result[1].status = "error"

\* C6 (as claimed): once a directions call of route_builder has failed in a run
\* of the workflow, analyze_elevation_for_runners is never called in that run.
C6_NoElevationAfterDirectionsFailure ==
    directions_failed => elevation = None

\* C7: elevation profiling never starts before the route_builder step has
\* completed: the elevation_analyst starts, and analyze_elevation_for_runners
\* is called, only when route_builder is done and no find_running_route call is
\* in progress.
C7_ElevationAfterRouteBuilder ==
    [][ (NewElevationCall \/ agent'["elevation_analyst"] # "idle")
        => (agent["route_builder"] = "done" /\ pc = "idle") ]_vars

\* C7 witness: the elevation_analyst has analysed the path that route_builder
\* stored.
C7_Witness ==
    /\ elevation # None
    /\ state.route_coordinates # None
    /\ elevation[1].path_coordinates = state.route_coordinates[1]
    /\ state.location[EyreSquare] # None

\* C8: when analyze_elevation_for_runners fails, tool_context.state (with
\* route_coordinates and route_distance_km) is unchanged and the error result
\* carries no terrain metrics.
C8_ElevationFailureFrame ==
    [][ (NewElevationCall /\ elevation'[1].result.status # "success")
        => /\ state' = state
           /\ DOMAIN elevation'[1].result \cap TerrainKeys = { } ]_vars

\* C8 witness: the analysis of a stored route has failed.
C8_Witness ==
    /\ elevation # None
    /\ elevation[1].result.status = "error"
    /\ state.route_coordinates # None
    /\ state.route_distance_km # None

Running == { a \in Agents : agent[a] = "running" }

\* C9 (as claimed): at most one agent is running at any time.
C9_AtMostOneAgentRunning == Cardinality(Running) <= 1

\* C9 (amended): only location_scout and google_search_agent, the sub-agents of
\* the parallel information_gathering stage, run at the same time;
\* route_builder and elevation_analyst each run with no other agent running.
C9_OnlyInformationGatheringConcurrent ==
    Cardinality(Running) <= 1 \/ Running \subseteq information_gathering

\* C9 witness: location_scout has written the shared state while
\* google_search_agent is running too.
C9_Witness ==
    /\ Running = information_gathering
    /\ state.location[EyreSquare] # None
    /\ ncalls["google_search_agent"] > 0

\* the target distance of the request is present (and not zero)
HasDistance(req) == TruthyNum(req.distance_target_km)

\* C10: for a request with is_loop true, a target distance and a successful
\* geocode, directions is called with origin = destination = start_location
\* (whatever end_location the caller gave) and with exactly the waypoints
\* _generate_loop_waypoints yields for the geocoded centre, in that order.
C10_LoopDirectionsCall ==
    \A k \in EventsOf(calls, "return", "geocode_location") :
        ( /\ request[1].is_loop
          /\ HasDistance(request[1])
          /\ calls[k].result.status = "success" )
        => /\ Cardinality(EventsOf(calls, "call", "get_running_directions")) = 1
           /\ \A i \in EventsOf(calls, "call", "get_running_directions") :
                  /\ calls[i].origin = request[1].start_location
                  /\ calls[i].destination = request[1].start_location
                  /\ calls[i].waypoints =
                         Some(generate_loop_waypoints(calls[k].result.latitude,
                                                      calls[k].result.longitude,
                                                      request[1].distance_target_km[1],
                                                      DefaultNumPoints))
                  /\ Len(calls[i].waypoints[1]) = DefaultNumPoints

\* C10 witness: a loop request that named another end_location has its
\* directions call in flight.
C10_Witness ==
    /\ pc = "FETCHING_DIRECTIONS"
    /\ request[1].is_loop
    /\ request[1].end_location = Some(Salthill)
    /\ waypoints # None

\* ------------------------------------------------------ reading a map URL back
RECURSIVE SplitOn(_, _)
\* s.split(c): the pieces of s between the occurrences of the character c
SplitOn(s, c) ==
    IF \A i \in 1 .. Len(s) : s[i] # c THEN << s >>
    ELSE LET k == CHOOSE i \in 1 .. Len(s) : s[i] = c /\ \A j \in 1 .. i - 1 : s[j] # c
         IN << SubSeq(s, 1, k - 1) >> \o SplitOn(SubSeq(s, k + 1, Len(s)), c)

\* the character of %h1h2
PercentDecode(h1, h2) ==
    CASE << h1, h2 >> = << "2", "0" >> -> " "
      [] << h1, h2 >> = << "2", "C" >> -> ","
      [] << h1, h2 >> = << "2", "5" >> -> "%"
      [] << h1, h2 >> = << "3", "F" >> -> "?"
      [] << h1, h2 >> = << "7", "C" >> -> "|"
      [] << h1, h2 >> = << "4", "0" >> -> "@"
      [] << h1, h2 >> = << "3", "D" >> -> "="
      [] << h1, h2 >> = << "3", "A" >> -> ":"
      [] << h1, h2 >> = << "2", "F" >> -> "/"

RECURSIVE unquote(_)
\* urllib.parse.unquote(s)
unquote(s) ==
    IF s = << >> THEN << >>
    ELSE IF s[1] = "%" /\ Len(s) >= 3
    THEN << PercentDecode(s[2], s[3]) >> \o unquote(SubSeq(s, 4, Len(s)))
    ELSE << s[1] >> \o unquote(Tail(s))

\* the path of a map URL after https://www.google.com/maps/dir/, up to the query
DirPath(url) ==
    LET q == { i \in 1 .. Len(url) : url[i] = "?" }
        stop == IF q = { } THEN Len(url) + 1 ELSE CHOOSE i \in q : \A j \in q : i <= j
    IN SubSeq(url, Len(base_url) + 1, stop - 1)

\* the location segments of a map URL: the pieces of its path between
\* slashes, without the closing "@"
LocationSegments(url) ==
    LET segs == SplitOn(DirPath(url), "/") IN SubSeq(segs, 1, Len(segs) - 1)

\* the map URL of a direct route from origin to destination
DirectUrl(origin, destination) ==
    base_url \o quote(origin) \o << "/" >> \o quote(destination)
    \o TravelModeParam \o Walking

DigitValue(c) == CHOOSE d \in 0 .. 9 : DigitChars[d + 1] = c
RECURSIVE ParseNat(_)
\* int(s) of a string of digits
ParseNat(s) == IF s = << >> THEN 0
               ELSE ParseNat(SubSeq(s, 1, Len(s) - 1)) * 10 + DigitValue(s[Len(s)])
\* float(s) of a decimal string, in micro-degrees
ParseFloat(s) ==
    LET neg == s[1] = "-"
        parts == SplitOn(IF neg THEN Tail(s) ELSE s, ".")
        frac == parts[2] \o [ i \in 1 .. 6 - Len(parts[2]) |-> "0" ]
        v == ParseNat(parts[1]) * Micro + ParseNat(frac)
    IN IF neg THEN -v ELSE v
\* << lat, lng >> of a waypoint string "lat,lng"
ParseWaypoint(s) ==
    LET p == SplitOn(s, ",") IN << ParseFloat(p[1]), ParseFloat(p[2]) >>

Sign(x) == IF x > 0 THEN 1 ELSE IF x < 0 THEN -1 ELSE 0
AllAngles == { 15 * k : k \in 0 .. 23 }

\* the point on the loop's circle at the angle t, measured as the code
\* measures it: latitude by the sine, longitude by the cosine
PointAtAngle(lat, lng, distance_km, t) ==
    << lat + TDiv(LoopLatOffset(distance_km) * Sin1000(t), 1000),
       lng + TDiv(LoopLngOffset(lat, distance_km) * Cos1000(t), 1000) >>
\* the angles at which the point p lies
AnglesOf(a, p) ==
    { t \in AllAngles : PointAtAngle(a.lat, a.lng, a.distance_km, t) = p }
\* the point on the loop's circle at the compass bearing b (0 = north,
\* increasing clockwise): latitude by the cosine, longitude by the sine
PointAtBearing(lat, lng, distance_km, b) ==
    << lat + TDiv(LoopLatOffset(distance_km) * Cos1000(b), 1000),
       lng + TDiv(LoopLngOffset(lat, distance_km) * Sin1000(b), 1000) >>
\* the compass bearings at which the point p lies
BearingsOf(a, p) ==
    { b \in AllAngles : PointAtBearing(a.lat, a.lng, a.distance_km, b) = p }

Applied(fn) == applied # None /\ applied.fn = fn /\ applied.value # None

\* C12: for every centre, positive distance and num_points n >= 1,
\* _generate_loop_waypoints returns exactly n waypoints, the i-th (0-based) at
\* the angle 45 + i * (360 / n) degrees, so that consecutive waypoints are
\* 360 / n degrees apart.
C12_LoopAngles ==
    Applied("_generate_loop_waypoints") =>
        LET a == applied.args
            n == a.num_points
            w == applied.value[1]
            theta(i) == AnglesOf(a, ParseWaypoint(w[i + 1]))
        IN /\ Len(w) = n
           /\ \A i \in 0 .. n - 1 : theta(i) = { (45 + i * (360 \div n)) % 360 }
           /\ \A i \in 0 .. n - 2 :
                  \A t \in theta(i), u \in theta(i + 1) : (u - t) % 360 = 360 \div n

\* C12 witness: a loop of six points around a centre in the southern
\* hemisphere has been generated.
C12_Witness ==
    /\ Applied("_generate_loop_waypoints")
    /\ applied.args.num_points = 6
    /\ applied.args.lat < 0
    /\ Len(applied.value[1]) = 6

\* the signs of the latitude and longitude offsets of the waypoints, and their
\* compass bearings, in output order
OffsetSigns(a, w) ==
    [ k \in 1 .. Len(w) |->
        << Sign(ParseWaypoint(w[k])[1] - a.lat), Sign(ParseWaypoint(w[k])[2] - a.lng) >> ]
Bearings(a, w) == [ k \in 1 .. Len(w) |-> BearingsOf(a, ParseWaypoint(w[k])) ]

\* C13 (as claimed): for a loop of four points the waypoints in output order
\* lie at the compass bearings 45, 135, 225, 315: north-east (+,+), south-east
\* (-,+), south-west (-,-), north-west (+,-) as (sign of the latitude offset,
\* sign of the longitude offset).
C13_ClockwiseFromNorthEast ==
    (Applied("_generate_loop_waypoints") /\ applied.args.num_points = 4) =>
        /\ OffsetSigns(applied.args, applied.value[1]) =
               << << 1, 1 >>, << -1, 1 >>, << -1, -1 >>, << 1, -1 >> >>
        /\ Bearings(applied.args, applied.value[1]) = << { 45 }, { 135 }, { 225 }, { 315 } >>

\* C13 (amended): for a loop of four points the waypoints in output order lie
\* at the compass bearings 45, 315, 225, 135: north-east (+,+), north-west
\* (+,-), south-west (-,-), south-east (-,+); the loop runs anticlockwise.
C13_AnticlockwiseFromNorthEast ==
    (Applied("_generate_loop_waypoints") /\ applied.args.num_points = 4) =>
        /\ OffsetSigns(applied.args, applied.value[1]) =
               << << 1, 1 >>, << 1, -1 >>, << -1, -1 >>, << -1, 1 >> >>
        /\ Bearings(applied.args, applied.value[1]) = << { 45 }, { 315 }, { 225 }, { 135 } >>

\* C13 witness: the 5 km loop of four points around Eyre Square has been
\* generated.
C13_Witness ==
    /\ Applied("_generate_loop_waypoints")
    /\ applied.args = [lat |-> Galway.lat, lng |-> Galway.lng,
                       distance_km |-> 5000, num_points |-> 4]
    /\ Len(applied.value[1]) = 4

\* the turnaround point C14 states for a centre and a round-trip distance d (in
\* metres): the centre's longitude, and the latitude ((d / 2) / 1.3) / 111
\* degrees north of the centre
NorthTurnaround(lat, lng, d) ==
    << lat + TDiv(TDiv(d * 10, 26) * 1000, 111), lng >>

\* C14: for every centre and positive round-trip distance d,
\* _generate_out_and_back_waypoint with bearing 0 returns exactly one waypoint,
\* at the centre's longitude and ((d / 2) / 1.3) / 111 degrees of latitude
\* further north, which is (d / 2) / 1.3 km from the centre at 111 km per
\* degree; find_running_route uses bearing 0 for every out-and-back request.
C14_OutAndBackNorth ==
    /\ ( /\ Applied("_generate_out_and_back_waypoint")
         /\ applied.args.direction = 0
         /\ applied.args.distance_km > 0 )
       => LET a == applied.args
              w == applied.value[1]
          IN /\ Len(w) = 1
             /\ ParseWaypoint(w[1]) = NorthTurnaround(a.lat, a.lng, a.distance_km)
             /\ Abs(TDiv((ParseWaypoint(w[1])[1] - a.lat) * 111, 1000)
                    - TDiv(a.distance_km * 10, 26)) <= 1
    /\ ( /\ Applied("find_running_route.waypoints")
         /\ ~applied.args.request.is_loop
         /\ applied.args.request.distance_target_km[1] > 0 )
       => LET c == applied.args.coords
              w == applied.value[1]
          IN /\ Len(w) = 1
             /\ ParseWaypoint(w[1]) =
                    NorthTurnaround(c.latitude, c.longitude,
                                    applied.args.request.distance_target_km[1])

\* C14 witness: the turnaround of a 10 km out-and-back route north of Eyre
\* Square has been generated.
C14_Witness ==
    /\ Applied("_generate_out_and_back_waypoint")
    /\ applied.args = [lat |-> Galway.lat, lng |-> Galway.lng,
                       distance_km |-> 10000, direction |-> 0]
    /\ Len(applied.value[1]) = 1

\* the elevations of the samples of a reply, in order
ReplyElevations(reply) == [ i \in 1 .. Len(reply.results) |-> reply.results[i].elevation ]

\* C15 (as claimed): for every non-empty profile returned with status success
\* by get_elevation_along_path, total_elevation_gain >= 0,
\* total_elevation_loss >= 0 and total_elevation_gain - total_elevation_loss
\* equals the last sample's elevation minus the first sample's.
C15_GainLossTelescopes ==
    (Applied("get_elevation_along_path") /\ applied.value[1].status = "success") =>
        LET r == applied.value[1]
            e == ReplyElevations(applied.args.reply)
        IN /\ r.total_elevation_gain >= 0
           /\ r.total_elevation_loss >= 0
           /\ r.total_elevation_gain - r.total_elevation_loss = e[Len(e)] - e[1]

\* C15 (amended): total_elevation_gain and total_elevation_loss are >= 0 and
\* each is rounded to two decimals, so that their difference is within 0.01 m
\* (10 mm) of the last sample's elevation minus the first sample's.
C15_GainLossTelescopesRounded ==
    (Applied("get_elevation_along_path") /\ applied.value[1].status = "success") =>
        LET r == applied.value[1]
            e == ReplyElevations(applied.args.reply)
        IN /\ r.total_elevation_gain >= 0
           /\ r.total_elevation_loss >= 0
           /\ r.total_elevation_gain % 10 = 0
           /\ r.total_elevation_loss % 10 = 0
           /\ Abs((r.total_elevation_gain - r.total_elevation_loss)
                  - (e[Len(e)] - e[1])) <= 10

\* C15 witness: a profile that climbs 12.346 m and descends 12.342 m has been
\* returned with the totals 12.35 and 12.34.
C15_Witness ==
    /\ Applied("get_elevation_along_path")
    /\ applied.value[1].status = "success"
    /\ ReplyElevations(applied.args.reply) = << 0, 12346, 4 >>
    /\ applied.value[1].total_elevation_gain = 12350
    /\ applied.value[1].total_elevation_loss = 12340

\* the tier of a difficulty rating: 1 Flat, 2 Rolling, 3 Hilly, 4 Very Hilly
TierOf(difficulty) ==
    CASE difficulty = "Flat - Great for speed work" -> 1
      [] difficulty = "Rolling - Moderate hills" -> 2
      [] difficulty = "Hilly - Challenging" -> 3
      [] difficulty = "Very Hilly - Advanced" -> 4

\* C16: analyze_elevation_for_runners puts every gain in exactly one tier:
\* Flat below 50 m, Rolling from 50 m to below 150 m, Hilly from 150 m to below
\* 300 m, Very Hilly from 300 m; 50 is Rolling, 150 Hilly, 300 Very Hilly, and
\* the tier (one more than the number of thresholds the gain has reached) never
\* decreases as the gain grows.
C16_TierBoundaries ==
    (Applied("analyze_elevation_for_runners") /\ applied.value[1].status = "success") =>
        LET g == applied.value[1].total_elevation_gain
            tier == TierOf(applied.value[1].difficulty_rating)
        IN /\ (tier = 1) <=> (g < 50000)
           /\ (tier = 2) <=> (50000 <= g /\ g < 150000)
           /\ (tier = 3) <=> (150000 <= g /\ g < 300000)
           /\ (tier = 4) <=> (300000 <= g)
           /\ tier = 1 + Cardinality({ t \in { 50000, 150000, 300000 } : t <= g })

\* C16 witness: a gain of exactly 300 m has been rated Very Hilly.
C16_Witness ==
    /\ Applied("analyze_elevation_for_runners")
    /\ applied.value[1].status = "success"
    /\ applied.value[1].total_elevation_gain = 300000
    /\ applied.value[1].difficulty_rating = "Very Hilly - Advanced"

\* the locations a map URL is built from, in travel order
UrlLocations(origin, destination, wps) ==
    << origin >> \o (IF wps = None THEN << >> ELSE wps[1]) \o << destination >>

\* C17 (as claimed): for every origin, destination and waypoint list of
\* arbitrary strings, also with '/', ',', spaces, '%' or '?', splitting the path
\* of the URL generate_google_maps_url produces on '/' and percent-decoding each
\* segment gives back the origin, the waypoints and the destination, in
\* order and in the same number.
C17_UrlRoundTrip ==
    Applied("generate_google_maps_url") =>
        LET a == applied.args
            segs == LocationSegments(applied.value[1].maps_url)
        IN [ i \in 1 .. Len(segs) |-> unquote(segs[i]) ] =
               UrlLocations(a.origin, a.destination, a.waypoints)

\* the URL C18 describes: the prefix, the encoded locations joined by single
\* slashes, and /@?travelmode=<mode>
ExpectedUrl(origin, destination, wps, mode) ==
    LET locs == UrlLocations(origin, destination, wps)
    IN base_url
       \o JoinStr([ i \in 1 .. Len(locs) |-> quote(locs[i]) ], << "/" >>)
       \o << "/", "@", "?", "t", "r", "a", "v", "e", "l", "m", "o", "d", "e", "=" >>
       \o mode

\* C18: for every input the URL of generate_google_maps_url is
\* https://www.google.com/maps/dir/ followed by the encoded origin, each encoded
\* waypoint in the given order and the encoded destination, joined by single
\* slashes, followed by /@?travelmode=<mode>; with waypoints absent or empty the
\* origin is followed directly by the destination; find_running_route always
\* passes the mode walking.
C18_UrlFormat ==
    /\ Applied("generate_google_maps_url") =>
           LET a == applied.args
           IN /\ applied.value[1].status = "success"
              /\ applied.value[1].maps_url =
                     ExpectedUrl(a.origin, a.destination, a.waypoints, a.travel_mode)
              /\ ~TruthyList(a.waypoints) =>
                     applied.value[1].maps_url =
                         base_url \o quote(a.origin) \o << "/" >> \o quote(a.destination)
                         \o TravelModeParam \o a.travel_mode
    /\ Applied("find_running_route.metrics") =>
           LET log == applied.value[1].calls
           IN /\ Cardinality(EventsOf(log, "call", "generate_google_maps_url")) = 1
              /\ \A i \in EventsOf(log, "call", "generate_google_maps_url") :
                     /\ log[i].travel_mode = << "w", "a", "l", "k", "i", "n", "g" >>
                     /\ applied.value[1].result.google_maps_url =
                            ExpectedUrl(log[i].origin, log[i].destination,
                                        log[i].waypoints, log[i].travel_mode)

\* C18 witness: a URL through two waypoints has been built for the mode
\* driving.
C18_Witness ==
    /\ Applied("generate_google_maps_url")
    /\ applied.args.travel_mode = Driving
    /\ applied.args.waypoints = Some(<< << "a", " ", "b" >>, << "1", ",", "2" >> >>)
    /\ applied.value[1].status = "success"

\* the legs of the route get_running_directions selects from a reply
SelectedLegs(reply) == reply.routes[1].legs
\* the number of steps in the legs before leg i
StepsBefore(legs, i) == SumSeq([ k \in 1 .. i - 1 |-> Len(legs[k].steps) ])

\* C19: on a successful directions response path_coordinates is the start
\* of every step, leg by leg and step by step in the order of the response,
\* followed by exactly one more element, the end of the last leg; its length is
\* the number of steps of all legs plus one.
C19_PathCoordinates ==
    (Applied("get_running_directions") /\ applied.value[1].status = "success") =>
        LET legs == SelectedLegs(applied.args.reply)
            path == applied.value[1].path_coordinates
        IN /\ Len(path) = StepsBefore(legs, Len(legs) + 1) + 1
           /\ \A i \in 1 .. Len(legs) : \A j \in 1 .. Len(legs[i].steps) :
                  path[StepsBefore(legs, i) + j] = legs[i].steps[j].start_location
           /\ path[Len(path)] = legs[Len(legs)].end_location

\* C19 witness: a route of two legs, the second with no steps, has been
\* flattened to its two step starts and the end of the second leg.
C19_Witness ==
    /\ Applied("get_running_directions")
    /\ applied.value[1].status = "success"
    /\ Len(SelectedLegs(applied.args.reply)) = 2
    /\ Len(SelectedLegs(applied.args.reply)[1].steps) = 2
    /\ SelectedLegs(applied.args.reply)[2].steps = << >>
    /\ Len(applied.value[1].path_coordinates) = 3

\* C20: on a successful directions response total_distance is the sum of
\* distance.value and total_duration the sum of duration.value over all legs of
\* the selected route, and the returned legs list has one entry per leg, in the
\* same order.
C20_Totals ==
    (Applied("get_running_directions") /\ applied.value[1].status = "success") =>
        LET legs == SelectedLegs(applied.args.reply)
            r == applied.value[1]
        IN /\ r.total_distance = SumSeq([ i \in 1 .. Len(legs) |-> legs[i].distance.value ])
           /\ r.total_duration = SumSeq([ i \in 1 .. Len(legs) |-> legs[i].duration.value ])
           /\ Len(r.legs) = Len(legs)
           /\ \A i \in 1 .. Len(legs) :
                  /\ r.legs[i].distance = legs[i].distance.text
                  /\ r.legs[i].duration = legs[i].duration.text
                  /\ r.legs[i].start_address = legs[i].start_address
                  /\ r.legs[i].end_address = legs[i].end_address

\* C20 witness: the totals of a route of two different legs, with another
\* route as alternative, have been returned.
C20_Witness ==
    /\ Applied("get_running_directions")
    /\ applied.value[1].status = "success"
    /\ Len(applied.args.reply.routes) = 2
    /\ Len(SelectedLegs(applied.args.reply)) = 2
    /\ applied.value[1].total_distance = 2530 + 4020
    /\ applied.value[1].total_duration = 1860 + 2950
    /\ applied.value[1].legs[1].distance # applied.value[1].legs[2].distance

\* does the text (a sequence of parts) carry the string s as one of its parts
Carries(text, s) == \E i \in 1 .. Len(text) : text[i] = s

\* C21: get_running_directions never raises to its caller and makes exactly
\* one upstream request per call; an upstream status other than OK gives status
\* error with an error_message containing that status string, an exception
\* of the request or of reading the response (an OK response with no route or no
\* leg raises IndexError) gives status error with the exception's message, and
\* every other response gives status success.
C21_DirectionsErrors ==
    Applied("get_running_directions (upstream)") =>
        LET r == applied.args.replies[1]
            res == applied.value[1].result
            raises == r.kind = "json" /\ r.status = "OK"
                      /\ (r.routes = << >> \/ r.routes[1].legs = << >>)
        IN /\ Len(applied.value[1].requests) = 1
           /\ applied.value[1].requests[1].origin = applied.args.origin
           /\ res.status \in { "success", "error" }
           /\ r.kind = "exc" =>
                  res = [status |-> "error", error_message |-> << r.message >>]
           /\ (r.kind = "json" /\ r.status # "OK") =>
                  /\ res.status = "error"
                  /\ Carries(res.error_message, r.status)
           /\ raises =>
                  res = [status |-> "error",
                         error_message |-> << "list index out of range" >>]
           /\ (r.kind = "json" /\ r.status = "OK" /\ ~raises) => res.status = "success"

\* C21 witness: a call whose upstream answered NOT_FOUND, and would have
\* answered a retry with a route, has returned the error.
C21_Witness ==
    /\ Applied("get_running_directions (upstream)")
    /\ applied.args.replies[1].kind = "json"
    /\ applied.args.replies[1].status = "NOT_FOUND"
    /\ applied.args.replies[2].kind = "json"
    /\ applied.value[1].result.status = "error"

\* C22: get_running_directions always selects the first returned route: two
\* OK responses with the same first route and the same number of routes, and
\* any other alternatives, give identical results.
C22_FirstRouteSelected ==
    Applied("get_running_directions (two replies)") =>
        LET a == applied.value[1].a
            b == applied.value[1].b
        IN /\ a.status = b.status
           /\ a.status = "success" =>
                  /\ a.path_coordinates = b.path_coordinates
                  /\ a.total_distance = b.total_distance
                  /\ a.total_duration = b.total_duration
                  /\ a.summary = b.summary
                  /\ a.legs = b.legs
                  /\ a = b

\* C22 witness: two replies with the same first route and different second
\* routes have both given a success result.
C22_Witness ==
    /\ Applied("get_running_directions (two replies)")
    /\ Len(applied.args.reply_a.routes) = 2
    /\ applied.args.reply_a.routes[2] # applied.args.reply_b.routes[2]
    /\ applied.value[1].a.status = "success"
    /\ applied.value[1].b.status = "success"

\* the minutes of a pace estimate, the first number of its text
Minutes(estimate) == estimate[1]

\* C23: the three pace estimates derive from the route distance and the fixed
\* paces 6.5, 5.5 and 4.5 min/km alone: two successful directions results with
\* equal total_distance and different total_duration give identical
\* estimated_times, and easy minutes >= moderate minutes >= fast minutes.
C23_PaceEstimates ==
    /\ Applied("find_running_route.metrics (two durations)") =>
           LET a == applied.value[1].a
               b == applied.value[1].b
           IN /\ a.estimated_times = b.estimated_times
              /\ a.estimated_times.easy_pace[3] = 65
              /\ a.estimated_times.moderate_pace[3] = 55
              /\ a.estimated_times.fast_pace[3] = 45
              /\ \A k \in { "easy_pace", "moderate_pace", "fast_pace" } :
                     Minutes(a.estimated_times[k]) =
                         RoundHalfEven(a.total_distance * a.estimated_times[k][3], 10000)
    /\ \A fn \in { "find_running_route.metrics" } :
           Applied(fn) =>
               LET t == applied.value[1].result.estimated_times
               IN /\ Minutes(t.easy_pace) >= Minutes(t.moderate_pace)
                  /\ Minutes(t.moderate_pace) >= Minutes(t.fast_pace)
    /\ Applied("find_running_route.metrics (two durations)") =>
           \A r \in { applied.value[1].a, applied.value[1].b } :
               /\ Minutes(r.estimated_times.easy_pace) >= Minutes(r.estimated_times.moderate_pace)
               /\ Minutes(r.estimated_times.moderate_pace) >= Minutes(r.estimated_times.fast_pace)

\* C23 witness: two results of 5 km, one of 600 s and one of 3600 s, have both
\* been given 32, 28 and 22 minutes.
C23_Witness ==
    /\ Applied("find_running_route.metrics (two durations)")
    /\ applied.args.directions_a.total_distance = 5000
    /\ applied.args.directions_a.total_duration = 600
    /\ applied.args.directions_b.total_duration = 3600
    /\ Minutes(applied.value[1].a.estimated_times.easy_pace) = 32
    /\ Minutes(applied.value[1].b.estimated_times.moderate_pace) = 28
    /\ Minutes(applied.value[1].b.estimated_times.fast_pace) = 22

\* C24: on an OK reply with k results find_nearby_places returns exactly
\* min(k, 5) places, the first min(k, 5) upstream results in upstream order, and
\* count is the length of places.
C24_TopFivePlaces ==
    (Applied("find_nearby_places") /\ applied.args.reply.kind = "json"
        /\ applied.args.reply.status = "OK") =>
        LET upstream == applied.args.reply.results
            k == Len(upstream)
            res == applied.value[1]
            n == IF k < 5 THEN k ELSE 5
        IN /\ res.status = "success"
           /\ Len(res.places) = n
           /\ res.count = Len(res.places)
           /\ \A i \in 1 .. n :
                  /\ res.places[i].name = upstream[i].name
                  /\ res.places[i].latitude = upstream[i].lat
                  /\ res.places[i].longitude = upstream[i].lng
                  /\ upstream[i].vicinity # None =>
                         res.places[i].address = upstream[i].vicinity[1]
                  /\ upstream[i].rating # None =>
                         res.places[i].rating = upstream[i].rating[1]

\* C24 witness: a reply of six results has given five places, and a sixth
\* result was left out.
C24_Witness ==
    /\ Applied("find_nearby_places")
    /\ applied.args.reply.kind = "json"
    /\ Len(applied.args.reply.results) = 6
    /\ applied.value[1].status = "success"
    /\ applied.value[1].count = 5
    /\ applied.value[1].places[5].name = applied.args.reply.results[5].name

\* C25 (as claimed): no partial degradation: find_running_start_points returns
\* status error whenever its geocode call or its nearby-places call returned
\* an error.
C25_NoPartialDegradation ==
    Applied("find_running_start_points") =>
        LET made == applied.value[1].collaborators
        IN (\E i \in 1 .. Len(made) : made[i].status = "error") =>
               applied.value[1].result.status = "error"

\* the route keys of the shared state are those of the successful result res
RouteStored(st, res) ==
    /\ res.status = "success"
    /\ st.route_coordinates = Some(res.path_coordinates)
    /\ st.route_distance_km = Some(res.total_distance)
RouteKept ==
    /\ state'.route_coordinates = state.route_coordinates
    /\ state'.route_distance_km = state.route_distance_km

\* C26: over any sequence of find_running_route calls on one tool_context,
\* state['route_coordinates'] is present iff state['route_distance_km'] is; both
\* are absent until a call succeeds; every successful return stores the
\* path_coordinates and the distance of its result, and no other step (a failed
\* call included) clears or alters them, so they are always those of the most
\* recent successful call.
C26_RouteState ==
    /\ [](state.route_coordinates = None <=> state.route_distance_km = None)
    /\ []((state.route_coordinates # None) =>
              (ncalls["route_builder"] > 0 \/ agent["route_builder"] = "done"))
    /\ [][ /\ (pc # "DONE" /\ pc' = "DONE") => RouteStored(state', result'[1])
           /\ (pc # "FAILED" /\ pc' = "FAILED") => RouteKept
           /\ RouteKept \/ (pc = "COMPUTING_METRICS" /\ pc' = "DONE") ]_vars

\* C26 witness: the second call of find_running_route has failed at geocoding
\* while the route of the first call is still in the state.
C26_Witness ==
    /\ pc = "FAILED"
    /\ ncalls["route_builder"] = 2
    /\ calls # << >>
    /\ calls[Len(calls)].fn = "geocode_location"
    /\ state.route_coordinates # None
    /\ state.route_distance_km # None

\* C27: in every successful find_running_route the origin, the destination
\* and the waypoint list given to generate_google_maps_url, and encoded in
\* google_maps_url, are those of the one directions call of the request, in the
\* same order.
C27_UrlShowsDirectionsRoute ==
    /\ \A u \in EventsOf(calls, "call", "generate_google_maps_url") :
           /\ Cardinality(EventsOf(calls, "call", "get_running_directions")) = 1
           /\ \A d \in EventsOf(calls, "call", "get_running_directions") :
                  /\ d < u
                  /\ calls[u].origin = calls[d].origin
                  /\ calls[u].destination = calls[d].destination
                  /\ calls[u].waypoints = calls[d].waypoints
    /\ (pc = "DONE" /\ result[1].status = "success") =>
           /\ EventsOf(calls, "call", "generate_google_maps_url") # { }
           /\ \A d \in EventsOf(calls, "call", "get_running_directions") :
                  result[1].google_maps_url =
                      ExpectedUrl(calls[d].origin, calls[d].destination,
                                  calls[d].waypoints, Walking)

\* C27 witness: a loop request that named another end_location has returned
\* a URL that ends at the start, with the waypoints of the directions call.
C27_Witness ==
    /\ pc = "DONE"
    /\ result[1].status = "success"
    /\ request[1].is_loop
    /\ request[1].end_location = Some(Salthill)
    /\ \E u \in EventsOf(calls, "call", "generate_google_maps_url") :
           /\ calls[u].destination = request[1].start_location
           /\ calls[u].waypoints # None

\* C28: an upstream response with status OK and an empty payload never gives
\* a success result: get_running_directions returns status error when routes
\* is empty or the selected route has no legs, get_elevation_along_path returns
\* status error when results is empty, and a success result of
\* get_running_directions has at least one path coordinate.
C28_EmptyPayloadIsError ==
    /\ Applied("get_running_directions") =>
           LET r == applied.args.reply
               res == applied.value[1]
           IN /\ (r.kind = "json" /\ r.status = "OK"
                    /\ (r.routes = << >> \/ r.routes[1].legs = << >>)) =>
                      res.status = "error"
              /\ res.status = "success" => Len(res.path_coordinates) >= 1
    /\ Applied("get_elevation_along_path") =>
           LET r == applied.args.reply
           IN (r.kind = "json" /\ r.status = "OK" /\ r.results = << >>) =>
                  applied.value[1].status = "error"

\* C28 witness: an elevation reply of status OK with no sample has been answered
\* with an error.
C28_Witness ==
    /\ Applied("get_elevation_along_path")
    /\ applied.args.reply.kind = "json"
    /\ applied.args.reply.status = "OK"
    /\ applied.args.reply.results = << >>
    /\ applied.value[1].status = "error"

\* do all samples of the profile lie at one coordinate
Stationary(profile) ==
    \A i \in 1 .. Len(profile) :
        profile[i].lat = profile[1].lat /\ profile[i].lng = profile[1].lng
\* the planar distance of the profile, in millimetres
PlanarDistance(profile) ==
    SumSeq([ i \in 1 .. Len(profile) - 1 |->
        ISqrt((profile[i + 1].lat - profile[i].lat) * (profile[i + 1].lat - profile[i].lat)
              + (profile[i + 1].lng - profile[i].lng) * (profile[i + 1].lng - profile[i].lng))
        * 111 ])
\* gain / distance * 100 in hundredths of a percent, rounded down, two
\* decimal digits at a time
GradeFloor(gain, dist) ==
    LET r1 == (gain % dist) * 100
        r2 == (r1 % dist) * 100
    IN (gain \div dist) * 10000 + (r1 \div dist) * 100 + r2 \div dist

\* C29: analyze_elevation_for_runners never divides by zero: when the planar
\* distance between consecutive samples is 0 (one sample, or all samples at one
\* coordinate) average_grade is 0; for a profile of one sample gain = loss = 0
\* and the tier is Flat; when the distance is positive average_grade is
\* gain / distance x 100 (to two decimals) and is not negative.
C29_AverageGrade ==
    (Applied("analyze_elevation_for_runners")
        /\ applied.args.reply.kind = "json" /\ applied.args.reply.status = "OK"
        /\ applied.args.reply.results # << >>) =>
        LET res == applied.value[1]
            profile == res.elevation_profile
            dist == PlanarDistance(profile)
        IN /\ res.status = "success"
           /\ Stationary(profile) <=> dist = 0
           /\ dist = 0 => res.average_grade = 0
           /\ Len(profile) = 1 =>
                  /\ res.total_elevation_gain = 0
                  /\ res.total_elevation_loss = 0
                  /\ res.average_grade = 0
                  /\ res.difficulty_rating = "Flat - Great for speed work"
           /\ dist > 0 =>
                  /\ res.average_grade >= 0
                  /\ res.average_grade - GradeFloor(res.total_elevation_gain, dist) \in { 0, 1 }

\* C29 witness: a profile that climbs 40 m without moving has been given an
\* average grade of 0.
C29_Witness ==
    /\ Applied("analyze_elevation_for_runners")
    /\ applied.value[1].status = "success"
    /\ Len(applied.value[1].elevation_profile) = 2
    /\ Stationary(applied.value[1].elevation_profile)
    /\ applied.value[1].total_elevation_gain = 40000
    /\ applied.value[1].average_grade = 0

\* the directions calls among the collaborator calls of one run
DirectionsCalls(log) ==
    SelectSeq(log, LAMBDA e : e.ev = "call" /\ e.fn = "get_running_directions")

\* C30 (as claimed): the find_running_route of coordinator/RouteFindingAgent
\* and that of route_builder are equivalent: on every request and the same
\* upstream replies both make the same directions call and return the same
\* status, distance, estimated_times and map URL, and leave tool_context.state
\* the same.
C30_ImplementationsEquivalent ==
    Applied("find_running_route (both implementations)") =>
        LET a == applied.value[1].route_builder
            b == applied.value[1].coordinator
        IN /\ DirectionsCalls(a.calls) = DirectionsCalls(b.calls)
           /\ a.result.status = b.result.status
           /\ a.result.status = "success" =>
                  /\ a.result.distance_km = b.result.distance_km
                  /\ a.result.estimated_times = b.result.estimated_times
                  /\ a.result.google_maps_url = b.result.google_maps_url
           /\ a.state = b.state

====
